---- MODULE Spec2Model ----
(***************************************************************************)
(* State-machine model of the ApexAI derivation pipeline: the ingestion    *)
(* scripts (laps, sectors, telemetry), the DuckDB derivation stages        *)
(* (telemetry features, ideal laps, deltas, lap physics, sector physics)   *)
(* and the insights writer.  Every CREATE OR REPLACE TABLE statement is    *)
(* one step of the run that executes it; DuckDB commits each statement on  *)
(* its own, so a table is replaced at the moment its statement ends.       *)
(*                                                                         *)
(* Times are integers in units of 0.0001 s (Sec(1) = 10000), so that 1.0 s *)
(* and 1.0001 s are distinct values.  A SQL NULL / pandas NaN / Python     *)
(* None is the empty tuple NULL; a present nullable number v is <<v>>.     *)
(***************************************************************************)
EXTENDS Integers, Sequences, FiniteSets, TLC

VARIABLES
    raw,      \* the raw input files (never written by the pipeline)
    files,    \* files the pipeline writes: parquet files and the insights document
    db,       \* the DuckDB catalog: table name -> set of rows, or NoTable
    pc,       \* per run: index of the next statement of Program (0 = not started)
    lock,     \* the run holding the DuckDB file lock, or 0
    gen,      \* per table: the run whose statement created the current generation
    outcome,  \* per run and stage: "none", "ok", "returned" or "raised"
    said,     \* per run and stage: the input named by the stage's message, or "none"
    first,    \* the catalog and insights document as the first complete run left them
    coach     \* the push coach's call to the language model for one sector

vars == <<raw, files, db, pc, lock, gen, outcome, said, first, coach>>

----------------------------------------------------------------------------
(* Values *)

NULL == <<>>
IsNull(x) == x = NULL
Some(v) == <<v>>
Get(x) == x[1]

\* seconds -> model time units (0.0001 s)
Sec(n) == n * 10000

\* A catalog entry or a file: absent, or present with its rows
NoTable == [exists |-> FALSE, rows |-> {}]
Table(rows) == [exists |-> TRUE, rows |-> rows]
NoFile == [exists |-> FALSE, rows |-> {}]
File(rows) == [exists |-> TRUE, rows |-> rows]

Add(x, y) == IF IsNull(x) \/ IsNull(y) THEN NULL ELSE Some(Get(x) + Get(y))
Sub(x, y) == IF IsNull(x) \/ IsNull(y) THEN NULL ELSE Some(Get(x) - Get(y))

MinOf(S) == CHOOSE x \in S : \A y \in S : x <= y
MaxOf(S) == CHOOSE x \in S : \A y \in S : x >= y

\* SQL MIN over a collection of nullable values: NULLs are ignored, an empty
\* collection gives NULL.
SqlMin(S) ==
    LET N == {Get(x) : x \in {y \in S : ~IsNull(y)}}
    IN  IF N = {} THEN NULL ELSE Some(MinOf(N))

\* SQL SUM over a bag of integers given as a function row -> value.
RECURSIVE SumFn(_)
SumFn(f) ==
    IF DOMAIN f = {} THEN 0
    ELSE LET r == CHOOSE x \in DOMAIN f : TRUE
         IN  f[r] + SumFn([y \in DOMAIN f \ {r} |-> f[y]])

Abs(n) == IF n < 0 THEN -n ELSE n

RECURSIVE Gcd(_, _)
Gcd(a, b) == IF b = 0 THEN a ELSE Gcd(b, a % b)

\* An exact quotient num/den (den > 0) in lowest terms.
Ratio(num, den) ==
    LET g == Gcd(Abs(num), den)
    IN  [num |-> num \div g, den |-> den \div g]

----------------------------------------------------------------------------
(* Ingestion: laps.py and sectors.py *)

SectorIds == <<"S1a", "S1b", "S2a", "S2b", "S3a", "S3b">>

\* sectors.py: 'main_sector': sec_id[:2]
MainSector(sector_id) ==
    CASE sector_id \in {"S1a", "S1b"} -> "S1"
      [] sector_id \in {"S2a", "S2b"} -> "S2"
      [] sector_id \in {"S3a", "S3b"} -> "S3"

\* f"D_{car_no}"
DriverId(car_no) == <<"D", car_no>>

RACE_ID == "sebring_R1"

\* laps.py: df_laps['lap_time_s'].between(60, 240), both ends included
IsValidLap(lap_time_s) == lap_time_s >= Sec(60) /\ lap_time_s <= Sec(240)

\* laps.py: the drivers table built from the results file (drop_duplicates
\* keeps one row per distinct (NUMBER, CLASS, VEHICLE, ...) combination).
DriversFrame(results) ==
    {[driver_id |-> DriverId(r.NUMBER), car_no |-> r.NUMBER, class |-> r.CLASS,
      vehicle |-> r.VEHICLE, race_id |-> RACE_ID] : r \in results}

\* laps.py: the laps table built from the merged lap files.
LapsFrame(rawlaps) ==
    {[driver_id |-> DriverId(r.car_no), car_no |-> r.car_no, lap_no |-> r.lap,
      lap_time_s |-> r.lap_time_s, is_valid |-> IsValidLap(r.lap_time_s),
      start_ts |-> r.start_ts, end_ts |-> r.end_ts, race_id |-> RACE_ID] : r \in rawlaps}

\* A cell of the analysis workbook as pandas hands it to parse_time: missing
\* (NaN / None / NaT), a number, a datetime.time, a text (its characters), or an
\* object of another type that float() does not take (a datetime.datetime).
\* The parts of a time of day are hour, minute, second and microsecond.
Missing == [kind |-> "missing", v |-> <<>>, chars |-> <<>>]
Number(t) == [kind |-> "number", v |-> <<t>>, chars |-> <<>>]
TimeOfDay(h, m, sec, us) == [kind |-> "time", v |-> <<h, m, sec, us>>, chars |-> <<>>]
Text(chars) == [kind |-> "text", v |-> <<>>, chars |-> chars]
OtherObject == [kind |-> "other", v |-> <<>>, chars |-> <<>>]

\* Characters: the decimal digits, and everything else
Digits == <<"0", "1", "2", "3", "4", "5", "6", "7", "8", "9">>
IsDigit(c) == \E i \in DOMAIN Digits : Digits[i] = c
DigitVal(c) == (CHOOSE i \in DOMAIN Digits : Digits[i] = c) - 1

RECURSIVE DigitsValue(_)
DigitsValue(q) ==
    IF q = <<>> THEN 0
    ELSE DigitsValue(SubSeq(q, 1, Len(q) - 1)) * 10 + DigitVal(q[Len(q)])

\* str.strip(): leading and trailing blanks removed
RECURSIVE LStrip(_)
LStrip(q) == IF q # <<>> /\ Head(q) = " " THEN LStrip(Tail(q)) ELSE q
RECURSIVE RStrip(_)
RStrip(q) ==
    IF q # <<>> /\ q[Len(q)] = " " THEN RStrip(SubSeq(q, 1, Len(q) - 1)) ELSE q
Strip(q) == RStrip(LStrip(q))

\* str.split(':')
RECURSIVE Split(_)
Split(q) ==
    LET C == {i \in DOMAIN q : q[i] = ":"}
    IN  IF C = {} THEN <<q>>
        ELSE <<SubSeq(q, 1, MinOf(C) - 1)>> \o Split(SubSeq(q, MinOf(C) + 1, Len(q)))

\* int(s) and float(s) of a text made of digits, points, blanks and other
\* characters that are part of no number (no sign, exponent or underscore): the
\* value, or NULL where Python raises ValueError.  float gives the time in
\* units of 0.0001 s, from up to four digits after the point.
PyInt(q) ==
    LET t == Strip(q)
    IN  IF t # <<>> /\ \A i \in DOMAIN t : IsDigit(t[i]) THEN Some(DigitsValue(t))
        ELSE NULL

Pow10(n) == IF n = 0 THEN 1 ELSE IF n = 1 THEN 10 ELSE IF n = 2 THEN 100
            ELSE IF n = 3 THEN 1000 ELSE 10000
FracUnits(q) ==
    LET n == IF Len(q) < 4 THEN Len(q) ELSE 4
    IN  DigitsValue(SubSeq(q, 1, n)) * Pow10(4 - n)

PyFloat(q) ==
    LET t == Strip(q)
        P == {i \in DOMAIN t : t[i] = "."}
        k == MinOf(P)
    IN  IF t = <<>> \/ \E i \in DOMAIN t : ~IsDigit(t[i]) /\ t[i] # "." THEN NULL
        ELSE IF P = {} THEN Some(DigitsValue(t) * Pow10(4))
        ELSE IF Cardinality(P) > 1 \/ Len(t) = 1 THEN NULL
        ELSE Some(DigitsValue(SubSeq(t, 1, k - 1)) * Pow10(4)
                  + FracUnits(SubSeq(t, k + 1, Len(t))))

\* What a call leaves: a returned value (NULL for None) or an exception
Returns(x) == [raised |-> FALSE, value |-> x]
Raises == [raised |-> TRUE, value |-> NULL]

\* parse_time without its try / except around the conversions of a text
ParseTimeUncaught(val) ==
    IF val.kind = "missing" THEN Returns(NULL)
    ELSE IF val.kind = "time"
    THEN Returns(Some(Sec(val.v[1] * 3600 + val.v[2] * 60 + val.v[3]) + val.v[4] \div 100))
    ELSE IF val.kind = "text"
    THEN LET t == Strip(val.chars)
             parts == Split(t)
             minutes == IF Len(parts) = 3 THEN PyInt(parts[Len(parts) - 1])
                        ELSE PyInt(parts[1])
             seconds == PyFloat(parts[Len(parts)])
         IN  IF \E i \in DOMAIN t : t[i] = ":"
             THEN IF IsNull(minutes) \/ IsNull(seconds) THEN Raises
                  ELSE Returns(Some(Get(minutes) * Sec(60) + Get(seconds)))
             ELSE IF IsNull(PyFloat(t)) THEN Raises ELSE Returns(PyFloat(t))
    ELSE IF val.kind = "number" THEN Returns(Some(val.v[1]))
    ELSE Returns(NULL)

\* parse_time: every conversion sits in a try whose except returns None
ParseTime(val) ==
    IF val.kind = "missing" THEN Returns(NULL)
    ELSE IF val.kind = "time"
    THEN Returns(Some(Sec(val.v[1] * 3600 + val.v[2] * 60 + val.v[3]) + val.v[4] \div 100))
    ELSE IF val.kind = "text"
    THEN LET t == Strip(val.chars)
             parts == Split(t)
             minutes == IF Len(parts) = 3 THEN PyInt(parts[Len(parts) - 1])
                        ELSE PyInt(parts[1])
             seconds == PyFloat(parts[Len(parts)])
         IN  IF \E i \in DOMAIN t : t[i] = ":"
             THEN IF IsNull(minutes) \/ IsNull(seconds) THEN Returns(NULL)
                  ELSE Returns(Some(Get(minutes) * Sec(60) + Get(seconds)))
             ELSE Returns(PyFloat(t))
    ELSE IF val.kind = "number" THEN Returns(Some(val.v[1]))
    ELSE Returns(NULL)

\* parse_time raises on some cell of the file (the exception leaves
\* run_sectors_pipeline before anything is written)
ParseRaises(analysis) == \E x \in analysis : ParseTime(x.val).raised

\* sectors.py: one long-format row per micro-sector cell whose parsed time is
\* not None.
SectorsFrame(analysis) ==
    {[driver_id |-> DriverId(r.NUMBER), car_no |-> r.NUMBER, lap_no |-> r.LAP_NUMBER,
      sector_id |-> r.sector_id, main_sector |-> MainSector(r.sector_id),
      sector_time_s |-> Get(ParseTime(r.val).value)]
     : r \in {x \in analysis : ~IsNull(ParseTime(x.val).value)}}

----------------------------------------------------------------------------
(* Ideal-Lap Engine: ideal_lap.py *)

\* A noise filter that lets the threshold value itself through (>= 1)
PassesNoiseFilterInclusive(sector_time_s) == sector_time_s >= Sec(1)

\* WHERE s.sector_time_s > 1
MinSectorTime == Sec(1)
PassesNoiseFilter(sector_time_s) == sector_time_s > MinSectorTime

\* FROM sectors s JOIN drivers d ON s.driver_id = d.driver_id WHERE s.sector_time_s > 1
SectorsJoinDrivers(sectors, drivers) ==
    {<<s, d>> \in sectors \X drivers :
        s.driver_id = d.driver_id /\ PassesNoiseFilter(s.sector_time_s)}

\* ARG_MIN(d.driver_id, s.sector_time_s): the driver of a row holding the
\* group's minimum.  DuckDB keeps the first minimal row it meets, which depends
\* on the order the join produces the rows in, so every driver tied at the
\* minimum is a possible result.
ArgMinDrivers(group) ==
    LET best == MinOf({j[1].sector_time_s : j \in group})
    IN  {j[2].driver_id : j \in {x \in group : x[1].sector_time_s = best}}

\* The possible contents of ideal_lap_segments_class (ideal_lap.py statement 1).
IdealLapSegmentsClass(sectors, drivers) ==
    LET J == SectorsJoinDrivers(sectors, drivers)
        G == {<<j[2].class, j[1].sector_id>> : j \in J}
        Grp(g) == {j \in J : j[2].class = g[1] /\ j[1].sector_id = g[2]}
        Picks == {f \in [G -> {j[2].driver_id : j \in J}] :
                    \A g \in G : f[g] \in ArgMinDrivers(Grp(g))}
    IN  {{[class |-> g[1], sector_id |-> g[2],
           best_sector_time_s |-> MinOf({j[1].sector_time_s : j \in Grp(g)}),
           source_driver_id |-> f[g]] : g \in G} : f \in Picks}

\* lap_sector_sums (ideal_lap.py statement 2).
LapSectorSums(sectors) ==
    LET K == {s \in sectors : PassesNoiseFilter(s.sector_time_s)}
        G == {<<s.driver_id, s.car_no, s.lap_no, s.main_sector>> : s \in K}
        Grp(g) == {s \in K : <<s.driver_id, s.car_no, s.lap_no, s.main_sector>> = g}
    IN  {[driver_id |-> g[1], car_no |-> g[2], lap_no |-> g[3], main_sector |-> g[4],
          sector_time_sum |-> SumFn([s \in Grp(g) |-> s.sector_time_s])] : g \in G}

\* MIN(d.class): the classes in sorted order
Classes == <<"Am", "Pro">>
MinClass(S) == Classes[MinOf({i \in DOMAIN Classes : Classes[i] \in S})]


\* MAX(CASE WHEN l.main_sector = 'Sn' THEN l.sector_time_sum END): the slowest
\* sum as the personal best
BestMainSlowest(rows, main_sector) ==
    LET S == {l.sector_time_sum : l \in {x \in rows : x.main_sector = main_sector}}
    IN  IF S = {} THEN NULL ELSE Some(MaxOf(S))

\* MIN(CASE WHEN l.main_sector = 'Sn' THEN l.sector_time_sum END)
BestMain(rows, main_sector) ==
    SqlMin({IF l.main_sector = main_sector THEN Some(l.sector_time_sum) ELSE NULL
              : l \in rows})

\* A single-lap ideal: the three bests all read off the one lap of the driver
\* that has the smallest S1 sum
IdealLapDriverOneLap(lap_sector_sums, drivers) ==
    LET J == {<<l, d>> \in lap_sector_sums \X drivers : l.driver_id = d.driver_id}
        G == {j[1].driver_id : j \in J}
        Rows(g) == {j[1] : j \in {x \in J : x[1].driver_id = g}}
        S1(g) == {l \in Rows(g) : l.main_sector = "S1"}
        Lap(g) ==
            IF S1(g) = {} THEN MinOf({l.lap_no : l \in Rows(g)})
            ELSE (CHOOSE l \in S1(g) :
                    \A o \in S1(g) : l.sector_time_sum <= o.sector_time_sum).lap_no
        L(g) == {l \in Rows(g) : l.lap_no = Lap(g)}
    IN  {[driver_id |-> g,
          class |-> MinClass({j[2].class : j \in {x \in J : x[1].driver_id = g}}),
          best_S1 |-> BestMain(L(g), "S1"),
          best_S2 |-> BestMain(L(g), "S2"),
          best_S3 |-> BestMain(L(g), "S3")] : g \in G}

\* ideal_lap_driver (ideal_lap.py statement 3).
IdealLapDriver(lap_sector_sums, drivers) ==
    LET J == {<<l, d>> \in lap_sector_sums \X drivers : l.driver_id = d.driver_id}
        G == {j[1].driver_id : j \in J}
        L(g) == {j[1] : j \in {x \in J : x[1].driver_id = g}}
    IN  {[driver_id |-> g,
          class |-> MinClass({j[2].class : j \in {x \in J : x[1].driver_id = g}}),
          best_S1 |-> BestMain(L(g), "S1"),
          best_S2 |-> BestMain(L(g), "S2"),
          best_S3 |-> BestMain(L(g), "S3")] : g \in G}

\* ideal_lap (ideal_lap.py statement 4).
IdealLap(laps, ideal_lap_driver) ==
    LET J == {<<l, i>> \in laps \X ideal_lap_driver :
                l.driver_id = i.driver_id /\ l.is_valid}
        Ideal(i) == Add(Add(i.best_S1, i.best_S2), i.best_S3)
    IN  {[driver_id |-> j[1].driver_id, lap_no |-> j[1].lap_no,
          lap_time_s |-> j[1].lap_time_s, class |-> j[2].class,
          best_S1 |-> j[2].best_S1, best_S2 |-> j[2].best_S2, best_S3 |-> j[2].best_S3,
          ideal_lap_time_s |-> Ideal(j[2]),
          delta_to_ideal_s |-> Sub(Some(j[1].lap_time_s), Ideal(j[2]))] : j \in J}

----------------------------------------------------------------------------
(* Delta Engine: deltas.py *)

\* CASE WHEN s.main_sector='S1' THEN ild.best_S1 WHEN ... END
BestOfMain(row, main_sector) ==
    CASE main_sector = "S1" -> row.best_S1
      [] main_sector = "S2" -> row.best_S2
      [] main_sector = "S3" -> row.best_S3
      [] OTHER -> NULL

\* sector_deltas (deltas.py statement 1).  The join yields one row per matching
\* drivers row; src_vehicle keeps such rows apart (a table is a bag of rows).
SectorDeltas(sectors, drivers, ideal_lap_segments_class, ideal_lap_driver) ==
    LET J == {<<s, d, ils, ild>> \in
                sectors \X drivers \X ideal_lap_segments_class \X ideal_lap_driver :
                /\ s.driver_id = d.driver_id
                /\ s.sector_id = ils.sector_id /\ d.class = ils.class
                /\ s.driver_id = ild.driver_id
                /\ PassesNoiseFilter(s.sector_time_s)}
    IN  {[driver_id |-> j[1].driver_id, car_no |-> j[1].car_no, lap_no |-> j[1].lap_no,
          sector_id |-> j[1].sector_id, main_sector |-> j[1].main_sector,
          sector_time_s |-> j[1].sector_time_s,
          ideal_class_s |-> j[3].best_sector_time_s,
          delta_class_s |-> j[1].sector_time_s - j[3].best_sector_time_s,
          ideal_driver_s |-> BestOfMain(j[4], j[1].main_sector),
          delta_driver_s |->
              Sub(Some(j[1].sector_time_s), BestOfMain(j[4], j[1].main_sector)),
          best_S1 |-> j[4].best_S1, best_S2 |-> j[4].best_S2, best_S3 |-> j[4].best_S3,
          class |-> j[2].class, src_vehicle |-> j[2].vehicle] : j \in J}

\* main_sector_deltas (deltas.py statement 2).
MainSectorDeltas(sector_deltas) ==
    LET G == {<<r.driver_id, r.car_no, r.lap_no, r.main_sector>> : r \in sector_deltas}
        Grp(g) == {r \in sector_deltas :
                     <<r.driver_id, r.car_no, r.lap_no, r.main_sector>> = g}
        Actual(g) == SumFn([r \in Grp(g) |-> r.sector_time_s])
        IdealMain(g) == SqlMin({BestOfMain(r, g[4]) : r \in Grp(g)})
    IN  {[driver_id |-> g[1], car_no |-> g[2], lap_no |-> g[3], main_sector |-> g[4],
          actual_main_s |-> Actual(g),
          ideal_main_s |-> IdealMain(g),
          delta_main_s |-> Sub(Some(Actual(g)), IdealMain(g))] : g \in G}

\* lap_deltas (deltas.py statement 3).
LapDeltas(laps, ideal_lap) ==
    LET J == {<<l, i>> \in laps \X ideal_lap :
                l.driver_id = i.driver_id /\ l.lap_no = i.lap_no /\ l.is_valid}
    IN  {[driver_id |-> j[1].driver_id, lap_no |-> j[1].lap_no,
          lap_time_s |-> j[1].lap_time_s,
          ideal_lap_time_s |-> j[2].ideal_lap_time_s,
          delta_lap_s |-> Sub(Some(j[1].lap_time_s), j[2].ideal_lap_time_s),
          class |-> j[2].class] : j \in J}

\* An outlier filter that keeps a loss of exactly 20 s (<= 20)
IsRetainedLossInclusive(delta_main_s) ==
    ~IsNull(delta_main_s) /\ Get(delta_main_s) <= Sec(20)

\* WHERE delta_main_s < 20  -- remove outliers/pit laps
OutlierLoss == Sec(20)
IsRetainedLoss(delta_main_s) == ~IsNull(delta_main_s) /\ Get(delta_main_s) < OutlierLoss

\* STDDEV(x) is DuckDB's sample standard deviation: NULL for fewer than two
\* values, else the root of the squared deviations over n - 1.  It is kept
\* symbolically as the divisor and the sample.
Stddev(sample) ==
    IF Cardinality(DOMAIN sample) < 2 THEN NULL
    ELSE Some([divisor |-> Cardinality(DOMAIN sample) - 1, sample |-> sample])

\* driver_opportunities (deltas.py statement 4).
DriverOpportunities(main_sector_deltas) ==
    LET K == {r \in main_sector_deltas : IsRetainedLoss(r.delta_main_s)}
        G == {<<r.driver_id, r.main_sector>> : r \in K}
        Grp(g) == {r \in K : r.driver_id = g[1] /\ r.main_sector = g[2]}
        Loss(g) == [r \in Grp(g) |-> Get(r.delta_main_s)]
    IN  {[driver_id |-> g[1], main_sector |-> g[2],
          avg_loss_s |-> Ratio(SumFn(Loss(g)), Cardinality(Grp(g))),
          consistency_s |-> Stddev(Loss(g)),
          best_gain_s |-> MinOf({Get(r.delta_main_s) : r \in Grp(g)})] : g \in G}


----------------------------------------------------------------------------
(* Telemetry ingestion: telemetry.py *)

\* Exact fractions: lap_progress = elapsed / duration.
FracLE(a, b) == a.num * b.den <= b.num * a.den
FracLT(a, b) == a.num * b.den < b.num * a.den

\* df_wide['lap_progress'].clip(0, 1)
Clip01(q) ==
    IF q.num < 0 THEN Ratio(0, 1)
    ELSE IF q.num > q.den THEN Ratio(1, 1)
    ELSE q


\* lap_progress without the duration guard: pandas divides whatever the
\* duration is (x / 0 is +inf, -inf or NaN) and the clip brings the result
\* into [0, 1], NaN staying NaN
LapProgressUnguarded(timestamp, start_ts, end_ts) ==
    LET duration == end_ts - start_ts
        elapsed == timestamp - start_ts
    IN  IF duration > 0 THEN Some(Clip01(Ratio(elapsed, duration)))
        ELSE IF duration < 0 THEN Some(Clip01(Ratio(0 - elapsed, 0 - duration)))
        ELSE IF elapsed > 0 THEN Some(Ratio(1, 1))
        ELSE IF elapsed < 0 THEN Some(Ratio(0, 1))
        ELSE NULL

\* telemetry.py: valid = duration > 0; lap_progress = elapsed / duration where
\* valid, NaN elsewhere; then clipped to [0, 1] (NaN stays NaN).
LapProgress(timestamp, start_ts, end_ts) ==
    LET duration == end_ts - start_ts
        elapsed == timestamp - start_ts
    IN  IF duration > 0 THEN Some(Clip01(Ratio(elapsed, duration))) ELSE NULL

\* run_telemetry_pipeline: the frame saved to telemetry.parquet.  With the laps
\* parquet present the samples are inner-merged with the laps and get a
\* lap_progress column; without it the frame is saved with no such column.
TelemetryFrame(samples, laps_parquet) ==
    IF laps_parquet.exists
    THEN [exists |-> TRUE, lap_progress_col |-> TRUE,
          rows |-> {[timestamp |-> t[1].timestamp,
                     driver_id |-> DriverId(t[1].vehicle_number),
                     lap |-> t[1].lap, meta_session |-> t[1].meta_session,
                     throttle_pct |-> t[1].throttle_pct,
                     brake_f_bar |-> t[1].brake_f_bar,
                     lap_progress |->
                         LapProgress(t[1].timestamp, t[2].start_ts, t[2].end_ts)]
                    : t \in {x \in samples \X laps_parquet.rows :
                               /\ DriverId(x[1].vehicle_number) = x[2].driver_id
                               /\ x[1].lap = x[2].lap_no}}]
    ELSE [exists |-> TRUE, lap_progress_col |-> FALSE,
          rows |-> {[timestamp |-> t.timestamp,
                     driver_id |-> DriverId(t.vehicle_number),
                     lap |-> t.lap, meta_session |-> t.meta_session,
                     throttle_pct |-> t.throttle_pct,
                     brake_f_bar |-> t.brake_f_bar,
                     lap_progress |-> NULL] : t \in samples}]

----------------------------------------------------------------------------
(* Lap-Progress Segmenter and Hesitation Detector: telemetry_features.py *)

\* SECTOR_BOUNDS, as (name, lo, hi) with the bounds in hundredths
SECTOR_BOUNDS ==
    << <<"S1a", 0, 17>>, <<"S1b", 17, 33>>, <<"S2a", 33, 50>>,
       <<"S2b", 50, 67>>, <<"S3a", 67, 83>>, <<"S3b", 83, 101>> >>

\* Bins closed at the upper end instead of the lower (p > lo AND p <= hi)
SectorCaseUpperClosed(p) ==
    LET Hit == {i \in DOMAIN SECTOR_BOUNDS :
                  /\ FracLT(Ratio(SECTOR_BOUNDS[i][2], 100), p)
                  /\ FracLE(p, Ratio(SECTOR_BOUNDS[i][3], 100))}
    IN  IF Hit = {} THEN NULL ELSE Some(SECTOR_BOUNDS[MinOf(Hit)][1])

\* _sector_case_expr: CASE WHEN p >= lo AND p < hi THEN name ... END; the first
\* matching branch wins, no match gives NULL.
SectorCase(p) ==
    LET Hit == {i \in DOMAIN SECTOR_BOUNDS :
                  /\ FracLE(Ratio(SECTOR_BOUNDS[i][2], 100), p)
                  /\ FracLT(p, Ratio(SECTOR_BOUNDS[i][3], 100))}
    IN  IF Hit = {} THEN NULL ELSE Some(SECTOR_BOUNDS[MinOf(Hit)][1])

\* SQL three-valued logic on nullable booleans
SqlNot(b) == IF IsNull(b) THEN NULL ELSE Some(~Get(b))
SqlAnd(a, b) ==
    IF a = Some(FALSE) \/ b = Some(FALSE) THEN Some(FALSE)
    ELSE IF IsNull(a) \/ IsNull(b) THEN NULL
    ELSE Some(TRUE)

\* (throttle_pct BETWEEN 40 AND 70) AS mid_throttle
MidThrottle(throttle_pct) ==
    IF IsNull(throttle_pct) THEN NULL
    ELSE Some(Get(throttle_pct) >= 40 /\ Get(throttle_pct) <= 70)

\* lag(mid_throttle, 1, FALSE) over the ordered partition: the previous row's
\* value (NULL when that row's value is NULL), FALSE for the first row.
LagMid(throttles, i) ==
    IF i = 1 THEN Some(FALSE) ELSE MidThrottle(throttles[i - 1])

\* CASE WHEN mid_throttle AND NOT lag(...) THEN 1 ELSE 0 END
HesitationFlag(throttles, i) ==
    IF SqlAnd(MidThrottle(throttles[i]), SqlNot(LagMid(throttles, i))) = Some(TRUE)
    THEN 1 ELSE 0

\* throttle_hesitation_flag of every row of one partition, in scan order
HesitationFlags(throttles) ==
    [i \in DOMAIN throttles |-> HesitationFlag(throttles, i)]

RECURSIVE SumSeq(_)
SumSeq(q) == IF q = <<>> THEN 0 ELSE Head(q) + SumSeq(Tail(q))

\* SUM(throttle_hesitation_flag) of one partition scanned in the given order
HesitationCount(throttles) == SumSeq(HesitationFlags(throttles))

\* Every order in which a window ORDER BY lap_progress may deliver the rows of
\* a partition: ascending in lap_progress, rows of equal lap_progress in any
\* order.
RECURSIVE ScanOrders(_)
ScanOrders(rows) ==
    IF rows = {} THEN {<<>>}
    ELSE LET firsts == {r \in rows : \A o \in rows :
                            FracLE(Get(r.lap_progress), Get(o.lap_progress))}
         IN  UNION {{<<r>> \o q : q \in ScanOrders(rows \ {r})} : r \in firsts}

\* telemetry_enriched joined to its sector (views 1 and 2): telemetry LEFT JOIN
\* drivers, WHERE lap_progress IS NOT NULL AND lap_progress BETWEEN 0 AND 1.
TelemetryWithSector(telemetry_rows, drivers) ==
    LET Keep == {t \in telemetry_rows :
                   /\ ~IsNull(t.lap_progress)
                   /\ FracLE(Ratio(0, 1), Get(t.lap_progress))
                   /\ FracLE(Get(t.lap_progress), Ratio(1, 1))}
        Match(t) == {d \in drivers : d.driver_id = t.driver_id}
        Row(t, car_no, vehicle) ==
            [race_id |-> RACE_ID, session_id |-> t.meta_session,
             driver_id |-> t.driver_id, car_no |-> car_no, lap_no |-> t.lap,
             sector_id |-> SectorCase(Get(t.lap_progress)),
             lap_progress |-> t.lap_progress, timestamp |-> t.timestamp,
             throttle_pct |-> t.throttle_pct, brake_f_bar |-> t.brake_f_bar,
             src_vehicle |-> vehicle]
    IN  UNION {IF Match(t) = {} THEN {Row(t, NULL, NULL)}
               ELSE {Row(t, Some(d.car_no), Some(d.vehicle)) : d \in Match(t)}
               : t \in Keep}

PartitionKey(r) ==
    <<r.race_id, r.session_id, r.driver_id, r.car_no, r.lap_no, r.sector_id>>

\* MAX / MIN / AVG of telemetry_features over one group
BrakeStartProgress(rows) ==
    LET B == {r \in rows : ~IsNull(r.brake_f_bar) /\ Get(r.brake_f_bar) > 5}
    IN  IF B = {} THEN NULL
        ELSE Some(Get((CHOOSE r \in B : \A o \in B :
                          FracLE(Get(r.lap_progress), Get(o.lap_progress))).lap_progress))

BrakeMaxBar(rows) ==
    LET B == {Get(r.brake_f_bar) : r \in {x \in rows : ~IsNull(x.brake_f_bar)}}
    IN  IF B = {} THEN NULL ELSE Some(MaxOf(B))

\* AVG(CASE WHEN throttle_pct > 95 THEN 1.0 ELSE 0.0 END): a NULL throttle
\* counts as 0.0
ThrottleFullRatio(rows) ==
    Ratio(Cardinality({r \in rows : ~IsNull(r.throttle_pct) /\ Get(r.throttle_pct) > 95}),
          Cardinality(rows))

\* The possible contents of telemetry_features (statement 4 over the views):
\* one row per partition with a non-NULL sector_id, the hesitation count
\* summed along one of the partition's scan orders.
TelemetryFeatures(telemetry_rows, drivers) ==
    LET W == {r \in TelemetryWithSector(telemetry_rows, drivers) : ~IsNull(r.sector_id)}
        G == {PartitionKey(r) : r \in W}
        Grp(g) == {r \in W : PartitionKey(r) = g}
        Counts(g) == {HesitationCount([i \in DOMAIN q |-> q[i].throttle_pct])
                        : q \in ScanOrders(Grp(g))}
        Picks == {f \in [G -> UNION {Counts(g) : g \in G}] :
                    \A g \in G : f[g] \in Counts(g)}
    IN  {{[race_id |-> g[1], session_id |-> g[2], driver_id |-> g[3], car_no |-> g[4],
           lap_no |-> g[5], sector_id |-> Get(g[6]),
           brake_start_progress |-> BrakeStartProgress(Grp(g)),
           brake_max_bar |-> BrakeMaxBar(Grp(g)),
           throttle_full_ratio |-> ThrottleFullRatio(Grp(g)),
           throttle_hesitation_count |-> f[g]] : g \in G} : f \in Picks}


----------------------------------------------------------------------------
(* Physics Feature Engine, lap grain: physics_metrics.py *)

\* AVG over nullable integers: NULLs are ignored, no value at all gives NULL
SqlAvg(f) ==
    LET D == {r \in DOMAIN f : ~IsNull(f[r])}
    IN  IF D = {} THEN NULL
        ELSE Some(Ratio(SumFn([r \in D |-> Get(f[r])]), Cardinality(D)))

\* lap_physics (physics_metrics.py statement 1): GROUP BY driver_id, lap
LapPhysics(telemetry_rows) ==
    LET G == {<<t.driver_id, t.lap>> : t \in telemetry_rows}
        Grp(g) == {t \in telemetry_rows : t.driver_id = g[1] /\ t.lap = g[2]}
    IN  {[driver_id |-> g[1], lap |-> g[2],
          samples |-> Cardinality(Grp(g)),
          avg_throttle |-> SqlAvg([t \in Grp(g) |-> t.throttle_pct]),
          full_throttle_ratio |->
              Ratio(Cardinality({t \in Grp(g) :
                        ~IsNull(t.throttle_pct) /\ Get(t.throttle_pct) > 95}),
                    Cardinality(Grp(g))),
          avg_brake_pressure |-> SqlAvg([t \in Grp(g) |-> t.brake_f_bar]),
          max_brake_pressure |-> BrakeMaxBar(Grp(g))] : g \in G}

\* valid_lap_physics (physics_metrics.py statement 2)
ValidLapPhysics(lap_physics, laps) ==
    {[driver_id |-> j[1].driver_id, lap |-> j[1].lap, samples |-> j[1].samples,
      avg_throttle |-> j[1].avg_throttle,
      full_throttle_ratio |-> j[1].full_throttle_ratio,
      avg_brake_pressure |-> j[1].avg_brake_pressure,
      max_brake_pressure |-> j[1].max_brake_pressure,
      lap_time_s |-> j[2].lap_time_s, is_valid |-> j[2].is_valid]
     : j \in {x \in lap_physics \X laps :
                /\ x[1].driver_id = x[2].driver_id /\ x[1].lap = x[2].lap_no
                /\ x[2].is_valid}}

----------------------------------------------------------------------------
(* Physics-Reference Engine: physics_sector_metrics.py *)

\* sector_physics_base (statement 1): telemetry_features JOIN sectors JOIN
\* drivers WHERE s.sector_time_s > 1
SectorPhysicsBase(telemetry_features, sectors, drivers) ==
    {[race_id |-> j[1].race_id, session_id |-> j[1].session_id, class |-> j[3].class,
      driver_id |-> j[1].driver_id, car_no |-> j[1].car_no, lap_no |-> j[1].lap_no,
      sector_id |-> j[2].sector_id, main_sector |-> j[2].main_sector,
      sector_time_s |-> j[2].sector_time_s,
      brake_start_progress |-> j[1].brake_start_progress,
      brake_max_bar |-> j[1].brake_max_bar,
      throttle_full_ratio |-> j[1].throttle_full_ratio,
      throttle_hesitation_count |-> j[1].throttle_hesitation_count,
      src_vehicle |-> j[3].vehicle]
     : j \in {x \in telemetry_features \X sectors \X drivers :
                /\ x[1].driver_id = x[2].driver_id
                /\ x[1].car_no = Some(x[2].car_no)
                /\ x[1].lap_no = x[2].lap_no
                /\ x[1].sector_id = x[2].sector_id
                /\ x[1].driver_id = x[3].driver_id
                /\ PassesNoiseFilter(x[2].sector_time_s)}}

RefKey(b) == <<b.race_id, b.class, b.sector_id>>


\* The slowest row of the group as its reference (ORDER BY sector_time_s DESC)
RefCandidatesSlowest(base, g) ==
    LET Grp == {b \in base : RefKey(b) = g}
        worst == MaxOf({b.sector_time_s : b \in Grp})
    IN  {b \in Grp : b.sector_time_s = worst}

\* sector_physics_ranked / sector_physics_ref: ROW_NUMBER() OVER (PARTITION BY
\* race_id, class, sector_id ORDER BY sector_time_s ASC) = 1.  The ORDER BY
\* names no second key, so any row holding the group's minimum may get rank 1.
RefCandidates(base, g) ==
    LET Grp == {b \in base : RefKey(b) = g}
        best == MinOf({b.sector_time_s : b \in Grp})
    IN  {b \in Grp : b.sector_time_s = best}

FracSub(a, b) ==
    IF IsNull(a) \/ IsNull(b) THEN NULL
    ELSE Some(Ratio(Get(a).num * Get(b).den - Get(b).num * Get(a).den,
                    Get(a).den * Get(b).den))

\* The possible contents of physics_sector_metrics (statement 4 over the views)
PhysicsSectorMetrics(base) ==
    LET G == {RefKey(b) : b \in base}
        Picks == {f \in [G -> base] : \A g \in G : f[g] \in RefCandidates(base, g)}
        Row(b, r) ==
            [race_id |-> b.race_id, session_id |-> b.session_id, class |-> b.class,
             driver_id |-> b.driver_id, car_no |-> b.car_no, lap_no |-> b.lap_no,
             sector_id |-> b.sector_id, main_sector |-> b.main_sector,
             sector_time_s |-> b.sector_time_s,
             brake_start_progress |-> b.brake_start_progress,
             brake_max_bar |-> b.brake_max_bar,
             throttle_full_ratio |-> b.throttle_full_ratio,
             throttle_hesitation_count |-> b.throttle_hesitation_count,
             ref_sector_time_s |-> r.sector_time_s,
             ref_brake_start_progress |-> r.brake_start_progress,
             ref_brake_max_bar |-> r.brake_max_bar,
             ref_throttle_full_ratio |-> r.throttle_full_ratio,
             delta_class_s |-> b.sector_time_s - r.sector_time_s,
             brake_point_diff_vs_ref |->
                 FracSub(b.brake_start_progress, r.brake_start_progress),
             brake_max_bar_diff_vs_ref |-> Sub(b.brake_max_bar, r.brake_max_bar),
             throttle_full_ratio_diff_vs_ref |->
                 FracSub(Some(b.throttle_full_ratio), Some(r.throttle_full_ratio)),
             src_vehicle |-> b.src_vehicle]
    IN  {{Row(b, f[RefKey(b)]) : b \in base} : f \in Picks}


----------------------------------------------------------------------------
(* Insights Assembler: insights.py *)

\* Python round(x, 3) of a quantity in 0.0001 s units: to the nearest 0.001 s,
\* a tie going to the even millisecond.
Round3(q) ==
    LET n == q.num
        d == q.den * 10
        lo == IF n >= 0 THEN n \div d ELSE -((-n + d - 1) \div d)
        twice == 2 * (n - lo * d)
    IN  IF twice < d THEN lo * 10
        ELSE IF twice > d THEN (lo + 1) * 10
        ELSE IF lo % 2 = 0 THEN lo * 10 ELSE (lo + 1) * 10

RoundNullable(x) == IF IsNull(x) THEN NULL ELSE Some(Round3(Ratio(Get(x), 1)))

\* A summary whose best_delta_s is the largest delta_lap_s of the driver
DriverSummaryMaxDelta(lap_deltas, drivers) ==
    LET J == {<<l, d>> \in lap_deltas \X drivers : l.driver_id = d.driver_id}
        G == {j[1].driver_id : j \in J}
        Grp(g) == {j \in J : j[1].driver_id = g}
        Deltas(g) == {Get(j[1].delta_lap_s) : j \in {x \in Grp(g) : ~IsNull(x[1].delta_lap_s)}}
    IN  {[driver_id |-> g,
          car_no |-> MinOf({j[2].car_no : j \in Grp(g)}),
          class |-> MinClass({j[2].class : j \in Grp(g)}),
          best_lap_s |-> MinOf({j[1].lap_time_s : j \in Grp(g)}),
          ideal_lap_s |-> SqlMin({j[1].ideal_lap_time_s : j \in Grp(g)}),
          best_delta_s |-> IF Deltas(g) = {} THEN NULL ELSE Some(MaxOf(Deltas(g)))]
         : g \in G}

\* driver_summary_df: lap_deltas JOIN drivers GROUP BY driver_id
DriverSummary(lap_deltas, drivers) ==
    LET J == {<<l, d>> \in lap_deltas \X drivers : l.driver_id = d.driver_id}
        G == {j[1].driver_id : j \in J}
        Grp(g) == {j \in J : j[1].driver_id = g}
    IN  {[driver_id |-> g,
          car_no |-> MinOf({j[2].car_no : j \in Grp(g)}),
          class |-> MinClass({j[2].class : j \in Grp(g)}),
          best_lap_s |-> MinOf({j[1].lap_time_s : j \in Grp(g)}),
          ideal_lap_s |-> SqlMin({j[1].ideal_lap_time_s : j \in Grp(g)}),
          best_delta_s |-> SqlMin({j[1].delta_lap_s : j \in Grp(g)})] : g \in G}

\* physics_df: valid_lap_physics GROUP BY driver_id (the drivers that have
\* lap-level physics of their own)
PhysicsDrivers(valid_lap_physics) == {v.driver_id : v \in valid_lap_physics}

\* sector_class_physics_df: main_sector_deltas JOIN drivers JOIN
\* valid_lap_physics GROUP BY class, main_sector (the groups that exist)
SectorClassPhysics(main_sector_deltas, drivers, valid_lap_physics) ==
    {<<j[2].class, j[1].main_sector>> :
        j \in {x \in main_sector_deltas \X drivers \X valid_lap_physics :
                 /\ x[1].driver_id = x[2].driver_id
                 /\ x[3].driver_id = x[1].driver_id
                 /\ x[3].lap = x[1].lap_no}}

\* AVG over nullable exact fractions: NULLs are ignored, no value gives NULL
FracAdd(a, b) == Ratio(a.num * b.den + b.num * a.den, a.den * b.den)

RECURSIVE FracSum(_)
FracSum(f) ==
    IF DOMAIN f = {} THEN Ratio(0, 1)
    ELSE LET r == CHOOSE x \in DOMAIN f : TRUE
         IN  FracAdd(f[r], FracSum([y \in DOMAIN f \ {r} |-> f[y]]))

FracAvg(f) ==
    LET D == {r \in DOMAIN f : ~IsNull(f[r])}
        S == FracSum([r \in D |-> Get(f[r])])
    IN  IF D = {} THEN NULL ELSE Some(Ratio(S.num, S.den * Cardinality(D)))

\* round(float(x), 1) and round(float(x), 2): the nearest multiple of 1/unit
\* (unit = 10, 100), a tie going to the even one, as a count of such units; NaN
\* stays NaN.
RoundTo(x, unit) ==
    IF IsNull(x) THEN NULL
    ELSE LET n == Get(x).num * unit
             d == Get(x).den
             lo == IF n >= 0 THEN n \div d ELSE -((-n + d - 1) \div d)
             twice == 2 * (n - lo * d)
         IN  Some(IF twice < d THEN lo
                  ELSE IF twice > d THEN lo + 1
                  ELSE IF lo % 2 = 0 THEN lo ELSE lo + 1)

\* physics_df with its averages
PhysicsDf(valid_lap_physics) ==
    LET Grp(g) == {v \in valid_lap_physics : v.driver_id = g}
    IN  {[driver_id |-> g,
          brake_pressure |-> FracAvg([v \in Grp(g) |-> v.avg_brake_pressure]),
          throttle |-> FracAvg([v \in Grp(g) |-> v.avg_throttle]),
          full_throttle_pct |-> FracAvg([v \in Grp(g) |-> Some(v.full_throttle_ratio)])]
         : g \in {v.driver_id : v \in valid_lap_physics}}

\* sector_class_physics_df with its averages (one value per joined row)
SectorClassPhysicsDf(main_sector_deltas, drivers, valid_lap_physics) ==
    LET J == {x \in main_sector_deltas \X drivers \X valid_lap_physics :
                /\ x[1].driver_id = x[2].driver_id
                /\ x[3].driver_id = x[1].driver_id
                /\ x[3].lap = x[1].lap_no}
        Grp(g) == {j \in J : j[2].class = g[1] /\ j[1].main_sector = g[2]}
    IN  {[class |-> g[1], main_sector |-> g[2],
          brake_pressure |-> FracAvg([j \in Grp(g) |-> j[3].avg_brake_pressure]),
          throttle |-> FracAvg([j \in Grp(g) |-> j[3].avg_throttle]),
          full_throttle_pct |-> FracAvg([j \in Grp(g) |-> Some(j[3].full_throttle_ratio)])]
         : g \in {<<j[2].class, j[1].main_sector>> : j \in J}}

\* The physics_avg object built from a row of averages, and the one of Nones
PhysicsRecord(row) ==
    [brake_bar |-> RoundTo(row.brake_pressure, 10),
     throttle_pct |-> RoundTo(row.throttle, 10),
     full_throttle |-> RoundTo(row.full_throttle_pct, 100)]
NoPhysics == [brake_bar |-> NULL, throttle_pct |-> NULL, full_throttle |-> NULL]

\* A chain that looks at the (class, main_sector) average before the driver's own
PhysicsSourceClassFirst(driver_id, class, main_sector, physics_drivers, sector_class) ==
    IF <<class, main_sector>> \in sector_class THEN "class_sector"
    ELSE IF driver_id \in physics_drivers THEN "driver"
    ELSE "none"

\* The fallback chain of physics_avg: driver -> (class, main_sector) -> none
PhysicsSource(driver_id, class, main_sector, physics_drivers, sector_class) ==
    IF driver_id \in physics_drivers THEN "driver"
    ELSE IF <<class, main_sector>> \in sector_class THEN "class_sector"
    ELSE "none"

\* physics_avg of one opportunity entry
PhysicsAvg(driver_id, class, main_sector, valid_lap_physics, main_sector_deltas, drivers) ==
    LET source == PhysicsSource(driver_id, class, main_sector,
                                PhysicsDrivers(valid_lap_physics),
                                SectorClassPhysics(main_sector_deltas, drivers,
                                                   valid_lap_physics))
    IN  CASE source = "driver" ->
               PhysicsRecord(CHOOSE p \in PhysicsDf(valid_lap_physics) :
                                p.driver_id = driver_id)
          [] source = "class_sector" ->
               PhysicsRecord(CHOOSE c \in SectorClassPhysicsDf(main_sector_deltas, drivers,
                                                               valid_lap_physics) :
                                c.class = class /\ c.main_sector = main_sector)
          [] OTHER -> NoPhysics

\* A sort that puts the smallest avg_loss_s first
RECURSIVE Ascending(_)
Ascending(rows) ==
    IF rows = {} THEN {<<>>}
    ELSE LET firsts == {r \in rows : \A o \in rows : FracLE(r.avg_loss_s, o.avg_loss_s)}
         IN  UNION {{<<r>> \o q : q \in Ascending(rows \ {r})} : r \in firsts}

\* sort_values("avg_loss_s", ascending=False): every descending arrangement
\* (rows of equal avg_loss_s in any order)
RECURSIVE Descending(_)
Descending(rows) ==
    IF rows = {} THEN {<<>>}
    ELSE LET tops == {r \in rows : \A o \in rows : FracLE(o.avg_loss_s, r.avg_loss_s)}
         IN  UNION {{<<r>> \o q : q \in Descending(rows \ {r})} : r \in tops}

TopN == 3
Head3(q) == IF Len(q) <= TopN THEN q ELSE SubSeq(q, 1, TopN)

\* The possible insights documents: one entry per driver of
\* driver_opportunities that has a driver_summary row.
InsightsDocs(driver_opportunities, lap_deltas, drivers, valid_lap_physics, main_sector_deltas) ==
    LET summary == DriverSummary(lap_deltas, drivers)
        D == {o.driver_id : o \in driver_opportunities} \cap
             {x.driver_id : x \in summary}
        Sum(g) == CHOOSE x \in summary : x.driver_id = g
        Ops(g) == {o \in driver_opportunities : o.driver_id = g}
        Orders == {f \in [D -> UNION {Descending(Ops(g)) : g \in D}] :
                     \A g \in D : f[g] \in Descending(Ops(g))}
        Entry(o, g) ==
            [main_sector |-> o.main_sector,
             time_loss_avg |-> Round3(o.avg_loss_s),
             best_gain_s |-> Round3(Ratio(o.best_gain_s, 1)),
             physics_avg |-> PhysicsAvg(g, Sum(g).class, o.main_sector, valid_lap_physics,
                                        main_sector_deltas, drivers)]
    IN  {[g \in D |->
            [driver_id |-> g, car_no |-> Sum(g).car_no, class |-> Sum(g).class,
             race_id |-> RACE_ID,
             best_lap_s |-> Round3(Ratio(Sum(g).best_lap_s, 1)),
             ideal_lap_s |-> RoundNullable(Sum(g).ideal_lap_s),
             total_time_opportunity_s |-> RoundNullable(Sum(g).best_delta_s),
             opportunities |->
                 [i \in DOMAIN Head3(f[g]) |-> Entry(Head3(f[g])[i], g)]]]
         : f \in Orders}


----------------------------------------------------------------------------
(* The pipeline as a state machine *)

\* Number of pipeline runs (one run = every script once, in Program order)
MaxRuns == 2
Runs == 1 .. MaxRuns

\* The scripts in the order a run executes them, each DuckDB statement that
\* replaces a table being one step.  An ingestion script is one step.
Program ==
    << <<"laps", "run">>,
       <<"sectors", "run">>,
       <<"telemetry", "run">>,
       <<"telemetry_features", "telemetry_features">>,
       <<"ideal_lap", "ideal_lap_segments_class">>,
       <<"ideal_lap", "lap_sector_sums">>,
       <<"ideal_lap", "ideal_lap_driver">>,
       <<"ideal_lap", "ideal_lap">>,
       <<"deltas", "sector_deltas">>,
       <<"deltas", "main_sector_deltas">>,
       <<"deltas", "lap_deltas">>,
       <<"deltas", "driver_opportunities">>,
       <<"physics_metrics", "lap_physics">>,
       <<"physics_metrics", "valid_lap_physics">>,
       <<"physics_sector_metrics", "sector_physics_base">>,
       <<"physics_sector_metrics", "physics_sector_metrics">>,
       <<"insights", "run">> >>

Done == Len(Program) + 1
Stages == {Program[i][1] : i \in DOMAIN Program}
StageOf(i) == Program[i][1]
Idx(stage, stmt) == CHOOSE i \in DOMAIN Program : Program[i] = <<stage, stmt>>
IsFirst(i) == i = 1 \/ StageOf(i - 1) # StageOf(i)
IsLast(i) == i = Len(Program) \/ StageOf(i + 1) # StageOf(i)
NextStage(i) == MinOf({j \in (i + 1) .. Done : j = Done \/ StageOf(j) # StageOf(i)})

RawTables == {"drivers", "laps", "sectors", "telemetry"}
DerivedTables ==
    {"telemetry_features", "ideal_lap_segments_class", "lap_sector_sums",
     "ideal_lap_driver", "ideal_lap", "sector_deltas", "main_sector_deltas",
     "lap_deltas", "driver_opportunities", "lap_physics", "valid_lap_physics",
     "sector_physics_base", "physics_sector_metrics"}
TableNames == RawTables \cup DerivedTables

\* The state a finished run leaves behind, kept from the first run to finish
Snapshot(r, db2, files2) ==
    IF r = 1 /\ ~first.taken
    THEN [taken |-> TRUE, db |-> db2, doc |-> files2.insights_json]
    ELSE first

\* The script ends with an exception (a table it reads does not exist, the
\* database file is locked by another process, ...): the statements it already
\* executed stay committed, the run goes on with its next script.
Raise(r, i, what) ==
    /\ outcome' = [outcome EXCEPT ![r][StageOf(i)] = "raised"]
    /\ said' = [said EXCEPT ![r][StageOf(i)] = what]
    /\ pc' = [pc EXCEPT ![r] = NextStage(i)]
    /\ lock' = IF lock = r THEN 0 ELSE lock
    /\ first' = IF NextStage(i) = Done THEN Snapshot(r, db, files) ELSE first
    /\ UNCHANGED <<raw, coach, files, db, gen>>

\* The statement replaces table t; the last statement of a script is followed
\* by con.close().
Commit(r, i, t, v) ==
    /\ db' = [db EXCEPT ![t] = v]
    /\ gen' = [gen EXCEPT ![t] = r]
    /\ pc' = [pc EXCEPT ![r] = i + 1]
    /\ lock' = IF IsLast(i) THEN 0 ELSE r
    /\ outcome' = IF IsLast(i) THEN [outcome EXCEPT ![r][StageOf(i)] = "ok"]
                  ELSE outcome
    /\ UNCHANGED <<raw, coach, files, said, first>>

\* The tables each statement names in its FROM / JOIN clauses, in the order
\* the statement names them ("insights": the queries of generate_insights in
\* the order it runs them).
Reads(target) ==
    CASE target = "telemetry_features" -> <<"telemetry", "drivers">>
      [] target = "ideal_lap_segments_class" -> <<"sectors", "drivers">>
      [] target = "lap_sector_sums" -> <<"sectors">>
      [] target = "ideal_lap_driver" -> <<"lap_sector_sums", "drivers">>
      [] target = "ideal_lap" -> <<"laps", "ideal_lap_driver">>
      [] target = "sector_deltas" ->
            <<"sectors", "drivers", "ideal_lap_segments_class", "ideal_lap_driver">>
      [] target = "main_sector_deltas" -> <<"sector_deltas">>
      [] target = "lap_deltas" -> <<"laps", "ideal_lap">>
      [] target = "driver_opportunities" -> <<"main_sector_deltas">>
      [] target = "lap_physics" -> <<"telemetry">>
      [] target = "valid_lap_physics" -> <<"lap_physics", "laps">>
      [] target = "sector_physics_base" -> <<"telemetry_features", "sectors", "drivers">>
      [] target = "physics_sector_metrics" -> <<"sector_physics_base">>
      [] target = "insights" ->
            <<"driver_opportunities", "lap_deltas", "drivers", "valid_lap_physics",
              "main_sector_deltas", "physics_sector_metrics">>

\* The first table of a statement's FROM list that does not exist (the one the
\* catalog error names), or "none"
FirstMissing(reads) ==
    LET M == {k \in DOMAIN reads : ~db[reads[k]].exists}
    IN  IF M = {} THEN "none" ELSE reads[MinOf(M)]

\* One CREATE OR REPLACE TABLE statement of a derivation script.  The first
\* statement of a script follows duckdb.connect(DB_PATH), which raises while
\* another process has the database file open.
Stmt(r, i, choices) ==
    /\ pc[r] = i
    /\ IF IsFirst(i) /\ lock # 0
       THEN Raise(r, i, "database_lock")
       ELSE IF FirstMissing(Reads(Program[i][2])) # "none"
       THEN Raise(r, i, FirstMissing(Reads(Program[i][2])))
       ELSE \E v \in choices : Commit(r, i, Program[i][2], Table(v))

\* run_laps_pipeline
RunLapsPipeline(r) ==
    LET i == Idx("laps", "run") IN
    /\ pc[r] = i
    /\ IF ~raw.results.exists
       THEN \* print("Critical: Results file missing ..."); return
            /\ outcome' = [outcome EXCEPT ![r]["laps"] = "returned"]
            /\ said' = [said EXCEPT ![r]["laps"] = "results_file"]
            /\ pc' = [pc EXCEPT ![r] = i + 1]
            /\ UNCHANGED <<raw, coach, files, db, gen, lock, first>>
       ELSE /\ files' = [files EXCEPT !.laps_parquet = File(LapsFrame(raw.laps))]
            /\ IF lock # 0
               THEN /\ outcome' = [outcome EXCEPT ![r]["laps"] = "raised"]
                    /\ said' = [said EXCEPT ![r]["laps"] = "database_lock"]
                    /\ UNCHANGED <<db, gen>>
               ELSE /\ db' = [db EXCEPT !["drivers"] = Table(DriversFrame(raw.results.rows)),
                                        !["laps"] = Table(LapsFrame(raw.laps))]
                    /\ gen' = [gen EXCEPT !["drivers"] = r, !["laps"] = r]
                    /\ outcome' = [outcome EXCEPT ![r]["laps"] = "ok"]
                    /\ UNCHANGED said
            /\ pc' = [pc EXCEPT ![r] = i + 1]
            /\ UNCHANGED <<raw, coach, lock, first>>

\* run_sectors_pipeline
RunSectorsPipeline(r) ==
    LET i == Idx("sectors", "run") IN
    /\ pc[r] = i
    /\ IF ParseRaises(raw.analysis)
       THEN /\ outcome' = [outcome EXCEPT ![r]["sectors"] = "raised"]
            /\ said' = [said EXCEPT ![r]["sectors"] = "parse_time"]
            /\ UNCHANGED <<db, gen>>
       ELSE IF lock # 0
       THEN /\ outcome' = [outcome EXCEPT ![r]["sectors"] = "raised"]
            /\ said' = [said EXCEPT ![r]["sectors"] = "database_lock"]
            /\ UNCHANGED <<db, gen>>
       ELSE /\ db' = [db EXCEPT !["sectors"] = Table(SectorsFrame(raw.analysis))]
            /\ gen' = [gen EXCEPT !["sectors"] = r]
            /\ outcome' = [outcome EXCEPT ![r]["sectors"] = "ok"]
            /\ UNCHANGED said
    /\ pc' = [pc EXCEPT ![r] = i + 1]
    /\ UNCHANGED <<raw, coach, files, lock, first>>

\* run_telemetry_pipeline
RunTelemetryPipeline(r) ==
    LET i == Idx("telemetry", "run") IN
    /\ pc[r] = i
    /\ IF lock # 0
       THEN /\ outcome' = [outcome EXCEPT ![r]["telemetry"] = "raised"]
            /\ said' = [said EXCEPT ![r]["telemetry"] = "database_lock"]
            /\ UNCHANGED <<db, gen>>
       ELSE /\ db' = [db EXCEPT !["telemetry"] =
                          TelemetryFrame(raw.telemetry, files.laps_parquet)]
            /\ gen' = [gen EXCEPT !["telemetry"] = r]
            /\ outcome' = [outcome EXCEPT ![r]["telemetry"] = "ok"]
            /\ said' = IF files.laps_parquet.exists THEN said
                       \* print("Laps parquet not found. Skipping ...")
                       ELSE [said EXCEPT ![r]["telemetry"] = "laps_parquet"]
    /\ pc' = [pc EXCEPT ![r] = i + 1]
    /\ UNCHANGED <<raw, coach, files, lock, first>>

\* run_telemetry_features_pipeline: the first view is bound against telemetry
\* LEFT JOIN drivers and reads t.lap_progress, so the script raises when a
\* table is missing or telemetry was saved without that column.
BuildTelemetryFeatures(r) ==
    LET i == Idx("telemetry_features", "telemetry_features") IN
    /\ pc[r] = i
    /\ IF lock # 0 THEN Raise(r, i, "database_lock")
       ELSE IF FirstMissing(Reads("telemetry_features")) # "none"
       THEN Raise(r, i, FirstMissing(Reads("telemetry_features")))
       ELSE IF ~db["telemetry"].lap_progress_col
       THEN Raise(r, i, "lap_progress")
       ELSE \E v \in TelemetryFeatures(db["telemetry"].rows, db["drivers"].rows) :
                Commit(r, i, "telemetry_features", Table(v))

\* compute_ideal_laps
CreateIdealLapSegmentsClass(r) ==
    Stmt(r, Idx("ideal_lap", "ideal_lap_segments_class"),
         IdealLapSegmentsClass(db["sectors"].rows, db["drivers"].rows))

CreateLapSectorSums(r) ==
    Stmt(r, Idx("ideal_lap", "lap_sector_sums"), {LapSectorSums(db["sectors"].rows)})

CreateIdealLapDriver(r) ==
    Stmt(r, Idx("ideal_lap", "ideal_lap_driver"),
         {IdealLapDriver(db["lap_sector_sums"].rows, db["drivers"].rows)})

CreateIdealLap(r) ==
    Stmt(r, Idx("ideal_lap", "ideal_lap"),
         {IdealLap(db["laps"].rows, db["ideal_lap_driver"].rows)})

\* compute_deltas
CreateSectorDeltas(r) ==
    Stmt(r, Idx("deltas", "sector_deltas"),
         {SectorDeltas(db["sectors"].rows, db["drivers"].rows,
                       db["ideal_lap_segments_class"].rows, db["ideal_lap_driver"].rows)})

CreateMainSectorDeltas(r) ==
    Stmt(r, Idx("deltas", "main_sector_deltas"),
         {MainSectorDeltas(db["sector_deltas"].rows)})

CreateLapDeltas(r) ==
    Stmt(r, Idx("deltas", "lap_deltas"),
         {LapDeltas(db["laps"].rows, db["ideal_lap"].rows)})

CreateDriverOpportunities(r) ==
    Stmt(r, Idx("deltas", "driver_opportunities"),
         {DriverOpportunities(db["main_sector_deltas"].rows)})

\* compute_physics_metrics
CreateLapPhysics(r) ==
    Stmt(r, Idx("physics_metrics", "lap_physics"), {LapPhysics(db["telemetry"].rows)})

CreateValidLapPhysics(r) ==
    Stmt(r, Idx("physics_metrics", "valid_lap_physics"),
         {ValidLapPhysics(db["lap_physics"].rows, db["laps"].rows)})

\* compute_sector_physics_metrics
CreateSectorPhysicsBase(r) ==
    Stmt(r, Idx("physics_sector_metrics", "sector_physics_base"),
         {SectorPhysicsBase(db["telemetry_features"].rows, db["sectors"].rows,
                            db["drivers"].rows)})

CreatePhysicsSectorMetrics(r) ==
    Stmt(r, Idx("physics_sector_metrics", "physics_sector_metrics"),
         PhysicsSectorMetrics(db["sector_physics_base"].rows))

\* generate_insights writing a document with no entry where it finds no
\* opportunities, instead of returning
GenerateInsightsWritesAnyway(r) ==
    LET i == Idx("insights", "run") IN
    /\ pc[r] = i
    /\ IF lock # 0 THEN Raise(r, i, "database_lock")
       ELSE IF ~db["driver_opportunities"].exists
       THEN Raise(r, i, "driver_opportunities")
       ELSE IF db["driver_opportunities"].rows = {}
       THEN /\ files' = [files EXCEPT !.insights_json = [exists |-> TRUE, doc |-> <<>>]]
            /\ outcome' = [outcome EXCEPT ![r]["insights"] = "returned"]
            /\ said' = [said EXCEPT ![r]["insights"] = "driver_opportunities"]
            /\ pc' = [pc EXCEPT ![r] = Done]
            /\ first' = Snapshot(r, db, files')
            /\ UNCHANGED <<raw, coach, db, gen, lock>>
       ELSE IF FirstMissing(Reads("insights")) # "none"
       THEN Raise(r, i, FirstMissing(Reads("insights")))
       ELSE \E doc \in InsightsDocs(db["driver_opportunities"].rows,
                                    db["lap_deltas"].rows, db["drivers"].rows,
                                    db["valid_lap_physics"].rows,
                                    db["main_sector_deltas"].rows) :
            /\ files' = [files EXCEPT !.insights_json = [exists |-> TRUE, doc |-> doc]]
            /\ outcome' = [outcome EXCEPT ![r]["insights"] = "ok"]
            /\ pc' = [pc EXCEPT ![r] = Done]
            /\ first' = Snapshot(r, db, files')
            /\ UNCHANGED <<raw, coach, db, gen, lock, said>>

\* generate_insights: the opportunities are queried first and an empty result
\* ends the script before any other table is read.
GenerateInsights(r) ==
    LET i == Idx("insights", "run") IN
    /\ pc[r] = i
    /\ IF lock # 0 THEN Raise(r, i, "database_lock")
       ELSE IF ~db["driver_opportunities"].exists
       THEN Raise(r, i, "driver_opportunities")
       ELSE IF db["driver_opportunities"].rows = {}
       THEN \* print("No rows in driver_opportunities ..."); return
            /\ outcome' = [outcome EXCEPT ![r]["insights"] = "returned"]
            /\ said' = [said EXCEPT ![r]["insights"] = "driver_opportunities"]
            /\ pc' = [pc EXCEPT ![r] = Done]
            /\ first' = Snapshot(r, db, files)
            /\ UNCHANGED <<raw, coach, files, db, gen, lock>>
       ELSE IF FirstMissing(Reads("insights")) # "none"
       THEN Raise(r, i, FirstMissing(Reads("insights")))
       ELSE \E doc \in InsightsDocs(db["driver_opportunities"].rows,
                                    db["lap_deltas"].rows, db["drivers"].rows,
                                    db["valid_lap_physics"].rows,
                                    db["main_sector_deltas"].rows) :
            /\ files' = [files EXCEPT !.insights_json = [exists |-> TRUE, doc |-> doc]]
            /\ outcome' = [outcome EXCEPT ![r]["insights"] = "ok"]
            /\ pc' = [pc EXCEPT ![r] = Done]
            /\ first' = Snapshot(r, db, files')
            /\ UNCHANGED <<raw, coach, db, gen, lock, said>>

\* One step of run r
Step(r) ==
    \/ RunLapsPipeline(r)
    \/ RunSectorsPipeline(r)
    \/ RunTelemetryPipeline(r)
    \/ BuildTelemetryFeatures(r)
    \/ CreateIdealLapSegmentsClass(r)
    \/ CreateLapSectorSums(r)
    \/ CreateIdealLapDriver(r)
    \/ CreateIdealLap(r)
    \/ CreateSectorDeltas(r)
    \/ CreateMainSectorDeltas(r)
    \/ CreateLapDeltas(r)
    \/ CreateDriverOpportunities(r)
    \/ CreateLapPhysics(r)
    \/ CreateValidLapPhysics(r)
    \/ CreateSectorPhysicsBase(r)
    \/ CreatePhysicsSectorMetrics(r)
    \/ GenerateInsights(r)

\* A run is started once the runs before it have finished
StartRun(r) ==
    /\ pc[r] = 0
    /\ \A q \in Runs : q < r => pc[q] = Done
    /\ pc' = [pc EXCEPT ![r] = 1]
    /\ UNCHANGED <<raw, coach, files, db, gen, lock, outcome, said, first>>

Next == \E r \in Runs : StartRun(r) \/ Step(r)

----------------------------------------------------------------------------
(* Push coach: push_coach.py, _call_llm_for_sector *)

MAX_LLM_RETRIES == 3
RATE_LIMIT_BACKOFF_SEC == 5

\* str.lower() over the letters that occur in the messages
UpperCase == <<"A", "E", "I", "L", "M", "O", "Q", "R", "T", "U">>
LowerCase == <<"a", "e", "i", "l", "m", "o", "q", "r", "t", "u">>
Lower(q) ==
    [i \in DOMAIN q |->
        IF \E k \in DOMAIN UpperCase : UpperCase[k] = q[i]
        THEN LowerCase[CHOOSE k \in DOMAIN UpperCase : UpperCase[k] = q[i]]
        ELSE q[i]]

\* sub in q, for texts
Contains(q, sub) ==
    \E i \in 0 .. (Len(q) - Len(sub)) : SubSeq(q, i + 1, i + Len(sub)) = sub

\* Retrying on the message as it is, without lowering it first
IsRateLimitAsWritten(msg) ==
    \/ Contains(msg, <<"r", "a", "t", "e", " ", "l", "i", "m", "i", "t">>)
    \/ Contains(msg, <<"4", "2", "9">>)
    \/ Contains(msg, <<"q", "u", "o", "t", "a">>)

\* msg = str(e).lower(); "rate limit" in msg or "429" in msg or "quota" in msg
IsRateLimit(msg) ==
    \/ Contains(Lower(msg), <<"r", "a", "t", "e", " ", "l", "i", "m", "i", "t">>)
    \/ Contains(Lower(msg), <<"4", "2", "9">>)
    \/ Contains(Lower(msg), <<"q", "u", "o", "t", "a">>)

\* What one call of _do_call may end with: a response whose text is a JSON
\* object, JSON of another type or no JSON at all, or an exception with a
\* message
Response(text) == [kind |-> "response", text |-> text, msg |-> <<>>]
Failure(msg) == [kind |-> "exception", text |-> "none", msg |-> msg]

\* The dict returned for a response: the fields of a JSON object, else the raw
\* text under the title "Coaching"
Coaching(reply) ==
    IF reply.text = "json_object" THEN "title_of_the_model" ELSE "Coaching"

\* The function has not been called / has been entered
NotCalled ==
    [at |-> "idle", attempt |-> 0, replies |-> <<>>, slept |-> <<>>, returned |-> "none"]

\* One pass of "for attempt in range(MAX_LLM_RETRIES)": the call, then return,
\* time.sleep(RATE_LIMIT_BACKOFF_SEC * (attempt + 1)) and continue, or raise
Attempt(reply) ==
    /\ coach.at = "loop" /\ coach.attempt < MAX_LLM_RETRIES
    /\ coach' =
         IF reply.kind = "response"
         THEN [coach EXCEPT !.at = "returned", !.replies = Append(@, reply),
                            !.returned = Coaching(reply)]
         ELSE IF IsRateLimit(reply.msg)
         THEN [coach EXCEPT !.attempt = @ + 1, !.replies = Append(@, reply),
                            !.slept = Append(@, RATE_LIMIT_BACKOFF_SEC * (coach.attempt + 1))]
         ELSE [coach EXCEPT !.at = "raised", !.replies = Append(@, reply)]
    /\ UNCHANGED <<raw, files, db, pc, lock, gen, outcome, said, first>>

\* The loop ends without a return: the "Coaching Error" dict is returned
ReturnCoachingError ==
    /\ coach.at = "loop" /\ coach.attempt >= MAX_LLM_RETRIES
    /\ coach' = [coach EXCEPT !.at = "returned", !.returned = "Coaching Error"]
    /\ UNCHANGED <<raw, files, db, pc, lock, gen, outcome, said, first>>


----------------------------------------------------------------------------
(* Inputs *)

ResultRow(n, c, v) == [NUMBER |-> n, CLASS |-> c, VEHICLE |-> v]
LapRow(n, lap, t, s, e) ==
    [car_no |-> n, lap |-> lap, lap_time_s |-> t, start_ts |-> s, end_ts |-> e]
\* A cell of the analysis file: an empty one (t = NULL), a numeric one, or one
\* holding any other value
Cell(n, lap, sid, val) ==
    [NUMBER |-> n, LAP_NUMBER |-> lap, sector_id |-> sid, val |-> val]
SectorCell(n, lap, sid, t) ==
    Cell(n, lap, sid, IF IsNull(t) THEN Missing ELSE Number(Get(t)))
Sample(n, lap, ts, th, br) ==
    [vehicle_number |-> n, lap |-> lap, timestamp |-> ts, meta_session |-> "R1",
     throttle_pct |-> th, brake_f_bar |-> br]

CarNos == {1, 2}
LapNos == {1, 2}

\* Sector times around the two thresholds: 1 s (noise filter) and, against a
\* 30 s personal best, 20 s of loss (outlier filter)
TimeVals == {Sec(1), Sec(1) + 1, Sec(30), Sec(50) - 1, Sec(50), Sec(55)}

\* At most k elements of S
RECURSIVE UpTo(_, _)
UpTo(S, k) ==
    IF k = 0 THEN {{}}
    ELSE LET T == UpTo(S, k - 1) IN T \cup {t \cup {x} : t \in T, x \in S}

CellKey(c) == <<c.NUMBER, c.LAP_NUMBER, c.sector_id>>

\* Two cars of one class; car 1 has a valid lap 1 and an over-long lap 2
ResultsFile == {ResultRow(1, "Pro", "v1"), ResultRow(2, "Pro", "v1")}
LapFiles ==
    {LapRow(1, 1, Sec(100), 0, 100), LapRow(1, 2, Sec(300), 100, 200),
     LapRow(2, 1, Sec(100), 0, 100)}
TelemetryFile ==
    {Sample(1, 1, 0, Some(30), Some(0)), Sample(1, 1, 1, Some(55), Some(10)),
     Sample(2, 1, 0, Some(100), NULL)}

\* The analysis files of the timing inputs: car 1 sets 30 s in every main
\* sector on lap 1, and up to MaxExtraCells further cells are filled in (a cell
\* of the background given again takes the further value).
MaxExtraCells == 1
BackgroundCells ==
    {SectorCell(1, 1, "S1a", Some(Sec(30))), SectorCell(1, 1, "S2a", Some(Sec(30))),
     SectorCell(1, 1, "S3a", Some(Sec(30)))}
ExtraCells ==
    {SectorCell(n, lap, sid, Some(t)) :
        n \in CarNos, lap \in LapNos, sid \in {"S1a", "S1b", "S2a"}, t \in TimeVals}
TimingFiles ==
    {{b \in BackgroundCells : \A x \in X : CellKey(x) # CellKey(b)} \cup X :
        X \in {Y \in UpTo(ExtraCells, MaxExtraCells) :
                 \A x, y \in Y : CellKey(x) = CellKey(y) => x = y}}

\* Files around the noise threshold: car 2 at 1.0 s or 1.0001 s in S1a (where
\* it has telemetry) and car 1 likewise in S1b, next to the background
BoundaryFiles ==
    {BackgroundCells \cup
       {SectorCell(2, 1, "S1a", Some(a)), SectorCell(1, 1, "S1b", Some(b))} :
        a \in {Sec(1), Sec(1) + 1}, b \in {Sec(1), Sec(1) + 1}}

\* Files that leave driver_opportunities empty: no cell, an unparseable cell,
\* a cell at the noise threshold
SparseFiles ==
    {{}, {SectorCell(1, 1, "S1a", NULL)}, {SectorCell(1, 1, "S1a", Some(Sec(1)))}}

RawInputs ==
    {[results |-> File(ResultsFile), laps |-> LapFiles, analysis |-> a,
      telemetry |-> TelemetryFile] :
        a \in TimingFiles \cup BoundaryFiles \cup SparseFiles}
    \cup
    {[results |-> NoFile, laps |-> LapFiles, analysis |-> BackgroundCells,
      telemetry |-> TelemetryFile]}

InitState(input) ==
    /\ raw = input
    /\ files = [laps_parquet |-> NoFile, insights_json |-> [exists |-> FALSE, doc |-> <<>>]]
    /\ db = [t \in TableNames |-> NoTable]
    /\ pc = [r \in Runs |-> 0]
    /\ lock = 0
    /\ gen = [t \in TableNames |-> 0]
    /\ outcome = [r \in Runs |-> [st \in Stages |-> "none"]]
    /\ said = [r \in Runs |-> [st \in Stages |-> "none"]]
    /\ first = [taken |-> FALSE, db |-> [t \in TableNames |-> NoTable],
                doc |-> [exists |-> FALSE, doc |-> <<>>]]
    /\ coach = NotCalled

Init == \E input \in RawInputs : InitState(input)

Spec == Init /\ [][Next]_vars

\* Telemetry inputs: car 1 on lap 1, one sample per timestamp 0, 1, 2, ... (all
\* inside micro-sector S1a of a 100-tick lap), the throttle trace drawn from
\* the values around the mid-throttle band [40, 70] and "no reading", up to
\* MaxSamples samples long; and the trace 30, 55, 60, 35, 50.
MaxSamples == 3
ThrottleVals == {NULL, Some(30), Some(40), Some(55), Some(70), Some(71)}
EntryTrace == <<Some(30), Some(55), Some(60), Some(35), Some(50)>>
ThrottleTraces ==
    UNION {[1 .. n -> ThrottleVals] : n \in 0 .. MaxSamples} \cup {EntryTrace}
TraceFile(q) == {Sample(1, 1, i - 1, q[i], Some(0)) : i \in DOMAIN q}

\* Telemetry of car 1 tagged lap 1 (which runs from tick 0 to tick 100) with up
\* to MaxStamps samples, their timestamps on and around the micro-sector
\* boundaries, the lap's two ends, and before and after the lap
MaxStamps == 2
Stamps == {0 - 10, 0, 16, 17, 33, 50, 67, 83, 100, 101, 150}
StampFile(T) == {Sample(1, 1, ts, Some(50), Some(0)) : ts \in T}

\* Telemetry of car 1 tagged lap 1 with samples at the lap's end and after it
\* (ticks 100, 101 and 150, all clamped to progress 1.0), each with a throttle
\* below or inside the band
LateStamps == {100, 101, 150}
ClampedFiles ==
    {{Sample(1, 1, ts, th[ts], Some(0)) : ts \in LateStamps} :
        th \in [LateStamps -> {Some(30), Some(55)}]}

\* Lap files in which lap 1 of car 1 ends when it starts or before it (car 2
\* has a lap from tick 0 to tick 100), with samples of car 1 around its start
DegenerateLapFiles ==
    {{LapRow(1, 1, Sec(100), se[1], se[2]), LapRow(2, 1, Sec(100), 0, 100)} :
        se \in {<<50, 50>>, <<100, 0>>}}
DegenerateStamps == {0, 50, 100}

TelemetryInputs ==
    {[results |-> File(ResultsFile), laps |-> LapFiles,
      analysis |-> {SectorCell(1, 1, "S1a", Some(Sec(30)))},
      telemetry |-> tel] :
        tel \in {TraceFile(q) : q \in ThrottleTraces}
                \cup {StampFile(T) : T \in UpTo(Stamps, MaxStamps)}
                \cup ClampedFiles}
    \cup
    {[results |-> File(ResultsFile), laps |-> l,
      analysis |-> {SectorCell(1, 1, "S1a", Some(Sec(30)))},
      telemetry |-> StampFile(T) \cup {Sample(2, 1, 50, Some(50), Some(0))}] :
        l \in DegenerateLapFiles, T \in UpTo(DegenerateStamps, MaxStamps)}

InitTelemetry == \E input \in TelemetryInputs : InitState(input)

SpecTelemetry == InitTelemetry /\ [][Next]_vars

\* Runs started by hand, whenever: each run is a sequence of processes of its
\* own, and nothing keeps two runs from being under way at once.
Launch(r) ==
    /\ pc[r] = 0
    /\ pc' = [pc EXCEPT ![r] = 1]
    /\ UNCHANGED <<raw, coach, files, db, gen, lock, outcome, said, first>>

NextRuns == \E r \in Runs : Launch(r) \/ Step(r)

RunsInputs ==
    {[results |-> File(ResultsFile), laps |-> LapFiles, analysis |-> a,
      telemetry |-> TelemetryFile] :
        a \in {{SectorCell(1, 1, "S1a", Some(Sec(30)))}}}

InitRuns == \E input \in RunsInputs : InitState(input)

SpecRuns == InitRuns /\ [][NextRuns]_vars


\* A rerun over a corrected timing file: the analysis workbook is replaced on
\* disk while the first run is under way, and the next run is started on the
\* new file without waiting for the first to finish.  Every script reads its
\* raw file at the moment it runs.
OldAnalysis == {SectorCell(1, 1, "S1a", Some(Sec(50)))}
NewAnalysis == {SectorCell(1, 1, "S1a", Some(Sec(30)))}

ReplaceAnalysisFile ==
    /\ raw.analysis = OldAnalysis
    /\ pc[1] > 0
    /\ raw' = [raw EXCEPT !.analysis = NewAnalysis]
    /\ UNCHANGED <<coach, files, db, pc, lock, gen, outcome, said, first>>

Relaunch(r) ==
    /\ pc[r] = 0
    /\ \A q \in Runs : q < r => pc[q] > 0
    /\ r > 1 => raw.analysis = NewAnalysis
    /\ pc' = [pc EXCEPT ![r] = 1]
    /\ UNCHANGED <<raw, coach, files, db, gen, lock, outcome, said, first>>

NextRerun == ReplaceAnalysisFile \/ \E r \in Runs : Relaunch(r) \/ Step(r)

RerunInputs ==
    {[results |-> File(ResultsFile), laps |-> LapFiles, analysis |-> OldAnalysis,
      telemetry |-> TelemetryFile]}

InitRerun == \E input \in RerunInputs : InitState(input)

SpecRerun == InitRerun /\ [][NextRerun]_vars


\* Inputs for the insights document.  Car 1 has two valid laps: lap 2 sets 30 s
\* in each main sector and lap 1 loses 0, 2 or 4 s to it, sector by sector; car
\* 2 (of car 1's class or of another) has one valid lap, with or without a
\* sector time; each car has telemetry or none.
LossVals == {Sec(30), Sec(32), Sec(34)}
InsightsLaps ==
    {LapRow(1, 1, Sec(100), 0, 100), LapRow(1, 2, Sec(95), 100, 200),
     LapRow(2, 1, Sec(100), 0, 100)}
InsightsSamples ==
    {Sample(1, 1, 10, Some(50), Some(10)), Sample(2, 1, 10, Some(100), Some(20))}
InsightsInputs ==
    {[results |-> File({ResultRow(1, "Pro", "v1"), ResultRow(2, c, "v1")}),
      laps |-> InsightsLaps,
      analysis |->
          {SectorCell(1, 2, "S1a", Some(Sec(30))), SectorCell(1, 2, "S2a", Some(Sec(30))),
           SectorCell(1, 2, "S3a", Some(Sec(30))),
           SectorCell(1, 1, "S1a", Some(t[1])), SectorCell(1, 1, "S2a", Some(t[2])),
           SectorCell(1, 1, "S3a", Some(t[3]))} \cup other,
      telemetry |-> tel] :
        c \in {"Pro", "Am"}, t \in LossVals \X LossVals \X LossVals,
        other \in {{}, {SectorCell(2, 1, "S1a", Some(Sec(31)))}},
        tel \in SUBSET InsightsSamples}

InitInsights == \E input \in InsightsInputs : InitState(input)

SpecInsights == InitInsights /\ [][Next]_vars


\* Inputs for parse_time: the S1a cell of car 1, lap 1 holds a text made of up
\* to four fields joined by ':' (fields with digits, with a point, empty, or
\* with a character of no number), such a text between blanks, a time of day,
\* a number, nothing, or an object of another type.
MinuteFields == {<<"0">>, <<"1">>, <<"0", "2">>, <<"x">>, <<>>}
SecondFields ==
    {<<"5">>, <<"2", "2", ".", "4">>, <<"0", "3", ".", "5">>, <<".", "5">>, <<"x">>, <<>>}
Join(a, b) == a \o <<":">> \o b
ClockTexts ==
    SecondFields
    \cup {Join(m, sec) : m \in MinuteFields, sec \in SecondFields}
    \cup {Join(h, Join(m, sec)) : h \in MinuteFields, m \in MinuteFields, sec \in SecondFields}
    \cup {Join(<<"1">>, Join(<<"1">>, Join(<<"1">>, sec))) : sec \in SecondFields}
    \cup {<<" ">> \o Join(m, sec) \o <<" ">> : m \in MinuteFields, sec \in SecondFields}
ClockCells ==
    {Text(t) : t \in ClockTexts}
    \cup {TimeOfDay(0, 1, 22, 400000), TimeOfDay(1, 2, 3, 500000),
          Number(Sec(82) + 4000), Missing, OtherObject}

ClockInputs ==
    {[results |-> File(ResultsFile), laps |-> LapFiles,
      analysis |-> {Cell(1, 1, "S1a", v), SectorCell(1, 1, "S2a", Some(Sec(30))),
                    SectorCell(1, 1, "S3a", Some(Sec(30)))},
      telemetry |-> TelemetryFile] : v \in ClockCells}

InitClock == \E input \in ClockInputs : InitState(input)

SpecClock == InitClock /\ [][Next]_vars


\* Inputs for the contents of the insights document.  Each car has one lap,
\* valid (100 s) or over-long (300 s), and any of three sector cells is filled
\* in.  Between two runs the analysis file may be replaced by one without a
\* row, so that the second run finds no opportunity.
DocumentInputs ==
    {[results |-> File(ResultsFile),
      laps |-> {LapRow(1, 1, t[1], 0, 100), LapRow(2, 1, t[2], 0, 100)},
      analysis |-> a, telemetry |-> TelemetryFile] :
        t \in {Sec(100), Sec(300)} \X {Sec(100), Sec(300)},
        a \in SUBSET {SectorCell(1, 1, "S1a", Some(Sec(30))),
                      SectorCell(1, 1, "S2a", Some(Sec(30))),
                      SectorCell(2, 1, "S1a", Some(Sec(31)))}}

EmptyAnalysisFile ==
    /\ raw.analysis # {}
    /\ pc[1] = Done /\ \A r \in Runs \ {1} : pc[r] = 0
    /\ raw' = [raw EXCEPT !.analysis = {}]
    /\ UNCHANGED <<coach, files, db, pc, lock, gen, outcome, said, first>>

NextDocument == EmptyAnalysisFile \/ \E r \in Runs : StartRun(r) \/ Step(r)

InitDocument == \E input \in DocumentInputs : InitState(input)

SpecDocument == InitDocument /\ [][NextDocument]_vars


\* Inputs for the push coach: the language-model service answers each call
\* with a response or with an exception, whose message names a rate limit in
\* one of several spellings or something else.
Messages ==
    {<<"R", "a", "t", "e", " ", "L", "i", "m", "i", "t">>,
     <<"r", "a", "t", "e", " ", "l", "i", "m", "i", "t">>,
     <<"4", "2", "9">>,
     <<"Q", "U", "O", "T", "A">>,
     <<"r", "a", "t", "e", "l", "i", "m", "i", "t">>,
     <<"t", "i", "m", "e", "o", "u", "t">>}
Replies ==
    {Response(t) : t \in {"json_object", "json_list", "text"}}
    \cup {Failure(m) : m \in Messages}

CallLlmForSector ==
    /\ coach.at = "idle"
    /\ coach' = [coach EXCEPT !.at = "loop"]
    /\ UNCHANGED <<raw, files, db, pc, lock, gen, outcome, said, first>>

NextCoach ==
    \/ CallLlmForSector
    \/ \E reply \in Replies : Attempt(reply)
    \/ ReturnCoachingError

InitCoach ==
    InitState([results |-> File(ResultsFile), laps |-> LapFiles,
               analysis |-> BackgroundCells, telemetry |-> TelemetryFile])

\* A call that has been entered goes on until it returns or raises
SpecCoach == InitCoach /\ [][NextCoach]_vars /\ WF_vars(NextCoach)


----------------------------------------------------------------------------
(* Properties *)

Rows(t) == db[t].rows

\* Run r has executed every script
Finished(r) == pc[r] = Done

\* The laps table marks (driver_id, lap_no) as not valid
IsInvalidLap(driver_id, lap_no) ==
    \E l \in Rows("laps") : l.driver_id = driver_id /\ l.lap_no = lap_no /\ ~l.is_valid

\* C1: no row of ideal_lap, lap_deltas, sector_deltas or main_sector_deltas
\* refers to a (driver_id, lap_no) that the laps table marks is_valid = false.
C1_ValidityFilter ==
    \A t \in {"ideal_lap", "lap_deltas", "sector_deltas", "main_sector_deltas"} :
        \A row \in Rows(t) : ~IsInvalidLap(row.driver_id, row.lap_no)

\* The micro-sector times above the noise threshold that driver d set on lap n
\* in main sector k, and the laps on which d set any
KeptTimes(d, n, k) ==
    {s \in Rows("sectors") : /\ s.driver_id = d /\ s.lap_no = n /\ s.main_sector = k
                             /\ s.sector_time_s > Sec(1)}
LapsWith(d, k) == {s.lap_no : s \in {x \in Rows("sectors") : KeptTimes(d, x.lap_no, k) # {}}}
LapSum(d, n, k) == SumFn([s \in KeptTimes(d, n, k) |-> s.sector_time_s])
PersonalBest(d, k) ==
    IF LapsWith(d, k) = {} THEN NULL
    ELSE Some(MinOf({LapSum(d, n, k) : n \in LapsWith(d, k)}))

\* C2: every ideal_lap row carries, for each main sector, the minimum over the
\* driver's laps of that lap's sum in the main sector, each of the three taken
\* on its own, and ideal_lap_time_s is the sum of the three.
C2_CompositeIdeal ==
    \A row \in Rows("ideal_lap") :
        /\ row.best_S1 = PersonalBest(row.driver_id, "S1")
        /\ row.best_S2 = PersonalBest(row.driver_id, "S2")
        /\ row.best_S3 = PersonalBest(row.driver_id, "S3")
        /\ ~IsNull(row.best_S1) /\ ~IsNull(row.best_S2) /\ ~IsNull(row.best_S3)
             => row.ideal_lap_time_s =
                  Some(Get(row.best_S1) + Get(row.best_S2) + Get(row.best_S3))

\* An ideal_lap row whose three bests no single lap of the driver holds
C2_BestsFromDifferentLaps ==
    \E row \in Rows("ideal_lap") :
        /\ ~IsNull(row.ideal_lap_time_s)
        /\ \A n \in LapNos :
             \E k \in {"S1", "S2", "S3"} :
                \/ n \notin LapsWith(row.driver_id, k)
                \/ Some(LapSum(row.driver_id, n, k)) # PersonalBest(row.driver_id, k)

\* The main_sector_deltas rows of (driver d, main sector m) below 20 s of loss
RetainedRows(d, m) ==
    {x \in Rows("main_sector_deltas") :
        /\ x.driver_id = d /\ x.main_sector = m
        /\ ~IsNull(x.delta_main_s) /\ Get(x.delta_main_s) < Sec(20)}
MeanLoss(rows) ==
    Ratio(SumFn([x \in rows |-> Get(x.delta_main_s)]), Cardinality(rows))
AvgLosses(opportunities) ==
    {<<o.driver_id, o.main_sector, o.avg_loss_s>> : o \in opportunities}

\* C3: driver_opportunities has one row per (driver, main_sector) that has a
\* main_sector_deltas row below 20 s, its avg_loss_s is the mean of exactly
\* those rows (a loss of exactly 20 s is not among them), and taking any one
\* row of 20 s or more out of main_sector_deltas leaves every avg_loss_s as is.
C3_OutlierExclusion ==
    db["driver_opportunities"].exists =>
        /\ \A o \in Rows("driver_opportunities") :
             /\ RetainedRows(o.driver_id, o.main_sector) # {}
             /\ o.avg_loss_s = MeanLoss(RetainedRows(o.driver_id, o.main_sector))
        /\ \A x \in Rows("main_sector_deltas") :
             RetainedRows(x.driver_id, x.main_sector) # {} =>
                \E o \in Rows("driver_opportunities") :
                    o.driver_id = x.driver_id /\ o.main_sector = x.main_sector
        /\ \A x \in Rows("main_sector_deltas") :
             Get(x.delta_main_s) >= Sec(20) =>
                AvgLosses(DriverOpportunities(Rows("main_sector_deltas") \ {x}))
                    = AvgLosses(Rows("driver_opportunities"))

\* A loss of exactly 20 s next to a retained loss of the same driver and main
\* sector, with the opportunities built
C3_LossOfExactlyTwenty ==
    /\ db["driver_opportunities"].exists
    /\ \E x \in Rows("main_sector_deltas") :
         /\ x.delta_main_s = Some(Sec(20))
         /\ \E o \in Rows("driver_opportunities") :
              o.driver_id = x.driver_id /\ o.main_sector = x.main_sector

\* The derived tables as a second run left them, against the first run's
BothRunsFinished == first.taken /\ Finished(1) /\ Finished(MaxRuns)

\* C5: after a second run over the same raw inputs every derived table holds
\* exactly the rows it held after the first run.
C5_SecondRunLeavesTablesAlike ==
    BothRunsFinished => \A t \in DerivedTables : db[t] = first.db[t]

\* The provenance columns: the driver recorded for each class-best segment, and
\* the reference values attached to each physics_sector_metrics row
SourceDrivers(rows) == {<<x.class, x.sector_id, x.source_driver_id>> : x \in rows}
ReferenceRows(rows) ==
    {<<x.class, x.sector_id, x.ref_sector_time_s, x.ref_brake_start_progress,
       x.ref_brake_max_bar, x.ref_throttle_full_ratio>> : x \in rows}

\* C6: the reference row chosen for a (race, class, micro-sector) group and the
\* source_driver_id of a class-best segment are the same on every run over the
\* same input, ties at the minimum sector_time_s included.
C6_SameReferenceOnEveryRun ==
    BothRunsFinished =>
        /\ SourceDrivers(Rows("ideal_lap_segments_class"))
             = SourceDrivers(first.db["ideal_lap_segments_class"].rows)
        /\ ReferenceRows(Rows("physics_sector_metrics"))
             = ReferenceRows(first.db["physics_sector_metrics"].rows)

\* The scripts that replace tables statement by statement, and their tables
DerivationStages == {StageOf(i) : i \in {j \in DOMAIN Program : Program[j][2] # "run"}}
Outputs(stage) ==
    {Program[i][2] : i \in {j \in DOMAIN Program : StageOf(j) = stage}}

\* C7: when a script of run r ended with an exception, none of that script's
\* output tables is of run r's making (all of them are as they were before).
C7_StageAllOrNothing ==
    \A r \in Runs : \A stage \in DerivationStages :
        outcome[r][stage] = "raised" => \A t \in Outputs(stage) : gen[t] # r

\* The sectors rows at or below the noise threshold, and the others
NoiseRows == {s \in Rows("sectors") : s.sector_time_s <= Sec(1)}
KeptRows == Rows("sectors") \ NoiseRows
HasDriver(s) == \E d \in Rows("drivers") : d.driver_id = s.driver_id
HasFeatures(s) ==
    \E f \in Rows("telemetry_features") :
        /\ f.driver_id = s.driver_id /\ f.car_no = Some(s.car_no)
        /\ f.lap_no = s.lap_no /\ f.sector_id = s.sector_id
SameInstance(x, s) ==
    /\ x.driver_id = s.driver_id /\ x.lap_no = s.lap_no
    /\ x.sector_id = s.sector_id /\ x.sector_time_s = s.sector_time_s

\* C9: each of the six tables is what it would be had the sectors rows of 1 s
\* or less never been recorded, and a sectors row above 1 s (1.0001 s for one)
\* is present in each: under the class best of its micro-sector, inside its
\* lap's main-sector sum, under its driver's personal best, and as a row of
\* its own in sector_deltas, main_sector_deltas and physics_sector_metrics
\* (where the driver is listed and, for the last, the instance has telemetry).
C9_NoiseThreshold ==
    /\ db["ideal_lap_segments_class"].exists =>
         Rows("ideal_lap_segments_class")
            \in IdealLapSegmentsClass(KeptRows, Rows("drivers"))
    /\ db["lap_sector_sums"].exists =>
         Rows("lap_sector_sums") = LapSectorSums(KeptRows)
    /\ db["ideal_lap_driver"].exists =>
         Rows("ideal_lap_driver") = IdealLapDriver(LapSectorSums(KeptRows), Rows("drivers"))
    /\ db["sector_deltas"].exists =>
         Rows("sector_deltas") =
            SectorDeltas(KeptRows, Rows("drivers"), Rows("ideal_lap_segments_class"),
                         Rows("ideal_lap_driver"))
    /\ db["main_sector_deltas"].exists =>
         /\ \A x \in Rows("main_sector_deltas") :
              x.actual_main_s = LapSum(x.driver_id, x.lap_no, x.main_sector)
         /\ \A s \in NoiseRows :
              KeptTimes(s.driver_id, s.lap_no, s.main_sector) = {} =>
                 ~\E x \in Rows("main_sector_deltas") :
                     /\ x.driver_id = s.driver_id /\ x.lap_no = s.lap_no
                     /\ x.main_sector = s.main_sector
    /\ db["physics_sector_metrics"].exists =>
         Rows("physics_sector_metrics") \in
            PhysicsSectorMetrics(SectorPhysicsBase(Rows("telemetry_features"), KeptRows,
                                                   Rows("drivers")))
    /\ \A s \in KeptRows :
         /\ db["lap_sector_sums"].exists =>
              \E l \in Rows("lap_sector_sums") :
                 /\ l.driver_id = s.driver_id /\ l.lap_no = s.lap_no
                 /\ l.main_sector = s.main_sector
                 /\ l.sector_time_sum = LapSum(s.driver_id, s.lap_no, s.main_sector)
         /\ db["ideal_lap_segments_class"].exists /\ HasDriver(s) =>
              \E c \in Rows("ideal_lap_segments_class") :
                 c.sector_id = s.sector_id /\ c.best_sector_time_s <= s.sector_time_s
         /\ db["ideal_lap_driver"].exists /\ HasDriver(s) =>
              \E i \in Rows("ideal_lap_driver") :
                 /\ i.driver_id = s.driver_id
                 /\ Get(BestOfMain(i, s.main_sector))
                       <= LapSum(s.driver_id, s.lap_no, s.main_sector)
         /\ db["sector_deltas"].exists /\ HasDriver(s) =>
              \E x \in Rows("sector_deltas") : SameInstance(x, s)
         /\ db["main_sector_deltas"].exists /\ HasDriver(s) =>
              \E x \in Rows("main_sector_deltas") :
                 /\ x.driver_id = s.driver_id /\ x.lap_no = s.lap_no
                 /\ x.main_sector = s.main_sector
         /\ db["physics_sector_metrics"].exists /\ HasDriver(s) /\ HasFeatures(s) =>
              \E x \in Rows("physics_sector_metrics") : SameInstance(x, s)

\* A finished run over a file with one instance at exactly 1.0 s and another
\* at 1.0001 s, the latter a row of physics_sector_metrics
C9_BothSidesOfTheThreshold ==
    /\ Finished(1)
    /\ \E s \in Rows("sectors") : s.sector_time_s = Sec(1)
    /\ \E s \in Rows("sectors") :
         /\ s.sector_time_s = Sec(1) + 1
         /\ \E x \in Rows("physics_sector_metrics") : SameInstance(x, s)
         /\ \E x \in Rows("sector_deltas") : SameInstance(x, s)

\* Run r is past script `stage`
Past(r, stage) == pc[r] > MaxOf({i \in DOMAIN Program : StageOf(i) = stage})
\* The script printed its message and returned early, or raised
ErrorOutcome(r, stage) == outcome[r][stage] \in {"returned", "raised"}

\* C10: a script whose required input is absent (the results file for laps,
\* the laps parquet for telemetry, a row of driver_opportunities for insights)
\* ends in an error outcome, names that input, and writes none of its outputs.
C10_AbsentInputIsAnError ==
    \A r \in Runs :
        /\ Past(r, "laps") /\ ~raw.results.exists =>
             /\ ErrorOutcome(r, "laps") /\ said[r]["laps"] = "results_file"
             /\ gen["drivers"] # r /\ gen["laps"] # r /\ ~files.laps_parquet.exists
        /\ Past(r, "telemetry") /\ ~files.laps_parquet.exists =>
             /\ ErrorOutcome(r, "telemetry") /\ said[r]["telemetry"] = "laps_parquet"
             /\ gen["telemetry"] # r
        /\ Past(r, "insights") /\ db["driver_opportunities"].exists
             /\ Rows("driver_opportunities") = {} =>
             /\ ErrorOutcome(r, "insights")
             /\ said[r]["insights"] = "driver_opportunities"
             /\ ~files.insights_json.exists

\* The mid-throttle band
InBand(throttle_pct) ==
    ~IsNull(throttle_pct) /\ Get(throttle_pct) >= 40 /\ Get(throttle_pct) <= 70

\* The samples behind a telemetry_features row
SamplesOf(f) ==
    {x \in TelemetryWithSector(Rows("telemetry"), Rows("drivers")) :
        PartitionKey(x) = <<f.race_id, f.session_id, f.driver_id, f.car_no, f.lap_no,
                            Some(f.sector_id)>>}

\* C4: in every partition, scanned by ascending lap_progress, a sample after
\* the first is flagged exactly when its throttle is in [40, 70] and the
\* throttle of the sample before it is not; the trace 30, 55, 60, 35, 50
\* gives a hesitation count of 2.
C4_FlagOnEntryIntoBand ==
    db["telemetry_features"].exists =>
        \A f \in Rows("telemetry_features") :
            \A q \in ScanOrders(SamplesOf(f)) :
                LET th == [i \in DOMAIN q |-> q[i].throttle_pct] IN
                /\ \A i \in 2 .. Len(q) :
                     HesitationFlag(th, i) = 1 <=> InBand(th[i]) /\ ~InBand(th[i - 1])
                /\ th = EntryTrace => f.throttle_hesitation_count = 2

\* The script whose statements make table t
Producer(t) ==
    CASE t \in {"drivers", "laps"} -> "laps"
      [] t = "sectors" -> "sectors"
      [] t = "telemetry" -> "telemetry"
      [] OTHER -> StageOf(CHOOSE i \in DOMAIN Program : Program[i][2] = t)

\* The tables statement i reads
ReadsOf(i) ==
    IF StageOf(i) = "insights" THEN Reads("insights")
    ELSE IF Program[i][2] = "run" THEN <<>>
    ELSE Reads(Program[i][2])

\* This step is run r executing statement i to its end
Completes(r, i) ==
    /\ pc[r] = i /\ pc'[r] = i + 1
    /\ outcome'[r][StageOf(i)] \notin {"raised", "returned"}

\* While run q is between the first and the last statement of a script, a step
\* of another run replaces no table
NoWriteInsideAStage ==
    \A q \in Runs : \A r \in Runs \ {q} :
        lock = q /\ pc'[r] # pc[r] => db' = db

\* A statement of run r that reads a table run r made in an earlier script
\* finds the table as run r made it
ReadsOwnUpstream ==
    \A r \in Runs : \A i \in DOMAIN Program :
        Completes(r, i) =>
            \A k \in DOMAIN ReadsOf(i) :
                outcome[r][Producer(ReadsOf(i)[k])] = "ok" => gen[ReadsOf(i)[k]] = r

\* C8: with two runs under way at once, no run replaces a table while the
\* other is inside a script, and no statement of a run reads an upstream table
\* that the other run replaced after the run made it.
C8_RunsDoNotInterleave == [][NoWriteInsideAStage /\ ReadsOwnUpstream]_vars

\* The micro-sector records of laps that the laps table does not mark invalid
SectorsOffInvalidLaps == {s \in Rows("sectors") : ~IsInvalidLap(s.driver_id, s.lap_no)}
BestTimes(rows) == {<<x.class, x.sector_id, x.best_sector_time_s>> : x \in rows}

\* C11: the class-best segment times and the drivers' best_S1 / best_S2 /
\* best_S3 are what they would be had the micro-sector records of invalid laps
\* never been recorded.
C11_BestsFromValidLapsOnly ==
    /\ db["ideal_lap_segments_class"].exists =>
         \A T \in IdealLapSegmentsClass(SectorsOffInvalidLaps, Rows("drivers")) :
            BestTimes(Rows("ideal_lap_segments_class")) = BestTimes(T)
    /\ db["ideal_lap_driver"].exists =>
         Rows("ideal_lap_driver")
            = IdealLapDriver(LapSectorSums(SectorsOffInvalidLaps), Rows("drivers"))

\* The ideal_lap rows of (driver_id, lap_no)
IdealLapRowsOf(driver_id, lap_no) ==
    {x \in Rows("ideal_lap") : x.driver_id = driver_id /\ x.lap_no = lap_no}

\* C12: once ideal_lap is built it has exactly one row for every laps row with
\* is_valid = true and no row for any other lap, and the rows of one driver all
\* carry the same ideal_lap_time_s.
C12_OneRowPerValidLap ==
    db["ideal_lap"].exists =>
        /\ \A l \in Rows("laps") :
             l.is_valid => Cardinality(IdealLapRowsOf(l.driver_id, l.lap_no)) = 1
        /\ \A x \in Rows("ideal_lap") :
             \E l \in Rows("laps") :
                l.driver_id = x.driver_id /\ l.lap_no = x.lap_no /\ l.is_valid
        /\ \A x, y \in Rows("ideal_lap") :
             x.driver_id = y.driver_id => x.ideal_lap_time_s = y.ideal_lap_time_s

\* The micro-sector records above the noise threshold that sectors holds for
\* the group (class, sector_id), and the groups that have any
GroupRecords(class, sector_id) ==
    {s \in Rows("sectors") :
        /\ s.sector_id = sector_id /\ s.sector_time_s > Sec(1)
        /\ \E d \in Rows("drivers") : d.driver_id = s.driver_id /\ d.class = class}
Groups ==
    {<<d.class, s.sector_id>> : d \in Rows("drivers"), s \in Rows("sectors")}
GroupBest(class, sector_id) ==
    MinOf({s.sector_time_s : s \in GroupRecords(class, sector_id)})

\* The step is a run executing the sector_deltas statement to its end
BuildsSectorDeltas == \E r \in Runs : Completes(r, Idx("deltas", "sector_deltas"))

\* The sector_deltas table the step leaves, against the sectors it was made from
DeltasAgainstSectors ==
    /\ \A x \in db'["sector_deltas"].rows :
         /\ GroupRecords(x.class, x.sector_id) # {}
         /\ x.delta_class_s = x.sector_time_s - GroupBest(x.class, x.sector_id)
         /\ x.delta_class_s >= 0
    /\ \A g \in Groups :
         GroupRecords(g[1], g[2]) # {} =>
            \E x \in db'["sector_deltas"].rows :
                x.class = g[1] /\ x.sector_id = g[2] /\ x.delta_class_s = 0

\* C13: whenever sector_deltas is built, each row's delta_class_s is its
\* sector_time_s minus the least sector_time_s above 1 s that sectors holds at
\* that moment for the row's (class, sector_id), so that no delta_class_s is
\* negative and every group has a row with delta_class_s = 0.
C13_DeltasWaitOnReference == [][BuildsSectorDeltas => DeltasAgainstSectors]_vars

\* The insights document on disk, with no run under way
Doc == files.insights_json.doc
DocIsCurrent == files.insights_json.exists /\ \A r \in Runs : pc[r] \in {0, Done}

\* The least lap_time_s over the valid laps of driver g, and g's ideal lap
BestValidLap(g) ==
    MinOf({l.lap_time_s : l \in {x \in Rows("laps") : x.driver_id = g /\ x.is_valid}})
IdealOf(g) == (CHOOSE x \in Rows("ideal_lap") : x.driver_id = g).ideal_lap_time_s

\* C16: for every driver of the document, total_time_opportunity_s is the
\* driver's least valid lap_time_s minus the driver's ideal_lap_time_s (to the
\* millisecond, as every number of the document), and best_lap_s and
\* ideal_lap_s are those two quantities.
C16_TotalOpportunity ==
    DocIsCurrent =>
        \A g \in DOMAIN Doc :
            /\ Doc[g].best_lap_s = Round3(Ratio(BestValidLap(g), 1))
            /\ Doc[g].ideal_lap_s = RoundNullable(IdealOf(g))
            /\ Doc[g].total_time_opportunity_s
                 = RoundNullable(Sub(Some(BestValidLap(g)), IdealOf(g)))

\* A document for a driver with two valid laps of different lap times and a
\* best lap above the ideal
C16_TwoValidLaps ==
    /\ DocIsCurrent
    /\ \E g \in DOMAIN Doc :
         /\ \E l \in Rows("laps") :
              l.driver_id = g /\ l.is_valid /\ l.lap_time_s > BestValidLap(g)
         /\ ~IsNull(Doc[g].total_time_opportunity_s)
         /\ Get(Doc[g].total_time_opportunity_s) > 0

\* The driver_opportunities rows of driver g, and the one of a main sector
OpportunitiesOf(g) == {o \in Rows("driver_opportunities") : o.driver_id = g}
OpportunityOf(g, main_sector) ==
    CHOOSE o \in OpportunitiesOf(g) : o.main_sector = main_sector
Listed(g) == {Doc[g].opportunities[i].main_sector : i \in DOMAIN Doc[g].opportunities}

\* C15: for every driver of the document the opportunities list holds rows of
\* that driver's driver_opportunities, each once: 3 of them or all if there are
\* fewer, in non-increasing order of time_loss_avg, and no row left out has a
\* larger avg_loss_s than a row that is in.
C15_TopThreeByLoss ==
    DocIsCurrent =>
        \A g \in DOMAIN Doc :
            LET ops == Doc[g].opportunities IN
            /\ Len(ops) <= 3
            /\ Len(ops) = Cardinality(Listed(g))
            /\ Len(ops) = IF Cardinality(OpportunitiesOf(g)) < 3
                          THEN Cardinality(OpportunitiesOf(g)) ELSE 3
            /\ \A i \in DOMAIN ops :
                 /\ \E o \in OpportunitiesOf(g) : o.main_sector = ops[i].main_sector
                 /\ ops[i].time_loss_avg
                      = Round3(OpportunityOf(g, ops[i].main_sector).avg_loss_s)
            /\ \A i, j \in DOMAIN ops :
                 i < j => ops[i].time_loss_avg >= ops[j].time_loss_avg
            /\ \A o \in OpportunitiesOf(g) : \A i \in DOMAIN ops :
                 o.main_sector \notin Listed(g) =>
                    FracLE(o.avg_loss_s, OpportunityOf(g, ops[i].main_sector).avg_loss_s)

\* A document whose list for some driver has three entries of three different
\* losses, the largest of them not in the first main sector
C15_ThreeDistinctLosses ==
    /\ DocIsCurrent
    /\ \E g \in DOMAIN Doc :
         LET ops == Doc[g].opportunities IN
         /\ Len(ops) = 3
         /\ ops[1].time_loss_avg > ops[2].time_loss_avg
         /\ ops[2].time_loss_avg > ops[3].time_loss_avg
         /\ ops[1].main_sector # "S1"

\* The valid_lap_physics rows of driver g, and the rows that main_sector_deltas
\* joins to a driver of the class and to that driver's lap physics in one main
\* sector
OwnPhysics(g) == {v \in Rows("valid_lap_physics") : v.driver_id = g}
ClassSectorPhysics(class, main_sector) ==
    {x \in Rows("main_sector_deltas") \X Rows("drivers") \X Rows("valid_lap_physics") :
        /\ x[1].driver_id = x[2].driver_id /\ x[2].class = class
        /\ x[1].main_sector = main_sector
        /\ x[3].driver_id = x[1].driver_id /\ x[3].lap = x[1].lap_no}

\* The averages of the lap physics Phys(x) over the rows x of S, as the
\* document prints them
StyleOver(S, Phys(_)) ==
    [brake_bar |-> RoundTo(FracAvg([x \in S |-> Phys(x).avg_brake_pressure]), 10),
     throttle_pct |-> RoundTo(FracAvg([x \in S |-> Phys(x).avg_throttle]), 10),
     full_throttle |->
         RoundTo(FracAvg([x \in S |-> Some(Phys(x).full_throttle_ratio)]), 100)]
Self(x) == x
Third(x) == x[3]

\* C14: every driver_opportunities row of a driver of the document (three at
\* most) has its entry, and the entry's physics_avg is the average of the
\* driver's own valid_lap_physics rows if there is one; failing that the
\* average over the (class, main_sector) rows if there is one; failing that the
\* object whose fields are all None.
C14_PhysicsFallbackChain ==
    DocIsCurrent =>
        \A g \in DOMAIN Doc :
            /\ \A o \in OpportunitiesOf(g) : o.main_sector \in Listed(g)
            /\ \A i \in DOMAIN Doc[g].opportunities :
                 LET e == Doc[g].opportunities[i]
                     shared == ClassSectorPhysics(Doc[g].class, e.main_sector)
                 IN  e.physics_avg =
                        IF OwnPhysics(g) # {} THEN StyleOver(OwnPhysics(g), Self)
                        ELSE IF shared # {} THEN StyleOver(shared, Third)
                        ELSE NoPhysics

\* A document with the three cases side by side: an entry of a driver with
\* lap physics of its own, and for a driver without any an entry served by the
\* class average and an entry with no physics at all; and, elsewhere, a driver
\* whose own averages differ from those of the class
C14_AllThreeCases ==
    /\ DocIsCurrent
    /\ \E g \in DOMAIN Doc : OwnPhysics(g) # {} /\ Len(Doc[g].opportunities) > 0
    /\ \E g \in DOMAIN Doc :
         /\ OwnPhysics(g) = {}
         /\ \E i, j \in DOMAIN Doc[g].opportunities :
              /\ ClassSectorPhysics(Doc[g].class, Doc[g].opportunities[i].main_sector) # {}
              /\ Doc[g].opportunities[i].physics_avg # NoPhysics
              /\ ClassSectorPhysics(Doc[g].class, Doc[g].opportunities[j].main_sector) = {}
              /\ Doc[g].opportunities[j].physics_avg = NoPhysics

\* The raw samples whose timestamp lies inside the lap they are tagged with
InsideLap(x) ==
    \E l \in files.laps_parquet.rows :
        /\ l.driver_id = DriverId(x.vehicle_number) /\ l.lap_no = x.lap
        /\ l.start_ts <= x.timestamp /\ x.timestamp <= l.end_ts

\* C17: telemetry_features is what it would be had the samples whose timestamp
\* falls outside their lap never been recorded: such a sample is in no row, the
\* first and the last micro-sector included.
C17_OutsideSamplesExcluded ==
    db["telemetry_features"].exists =>
        Rows("telemetry_features") \in
            TelemetryFeatures(
                TelemetryFrame({x \in raw.telemetry : InsideLap(x)},
                               files.laps_parquet).rows,
                Rows("drivers"))

\* The micro-sector of a lap_progress p in [0, 1]: the bins meet at 0.17, 0.33,
\* 0.50, 0.67 and 0.83, a boundary belonging to the later bin and 1.0 to S3b
BinOf(p) ==
    IF FracLT(p, Ratio(17, 100)) THEN "S1a"
    ELSE IF FracLT(p, Ratio(33, 100)) THEN "S1b"
    ELSE IF FracLT(p, Ratio(50, 100)) THEN "S2a"
    ELSE IF FracLT(p, Ratio(67, 100)) THEN "S2b"
    ELSE IF FracLT(p, Ratio(83, 100)) THEN "S3a"
    ELSE "S3b"

\* The telemetry rows of (driver_id, lap) that have a lap_progress
Progressed(driver_id, lap) ==
    {t \in Rows("telemetry") :
        t.driver_id = driver_id /\ t.lap = lap /\ ~IsNull(t.lap_progress)}

\* C18: the telemetry_features rows of a (driver, lap) are those of the
\* micro-sectors its samples fall in, each sample with a lap_progress in [0, 1]
\* falling in exactly one: the bin of its progress, a boundary value in the
\* later bin, 1.0 in S3b.
C18_ProgressToOneBin ==
    db["telemetry_features"].exists =>
        /\ \A t \in Rows("telemetry") :
             ~IsNull(t.lap_progress) =>
                \E f \in Rows("telemetry_features") :
                    /\ f.driver_id = t.driver_id /\ f.lap_no = t.lap
                    /\ f.sector_id = BinOf(Get(t.lap_progress))
        /\ \A f \in Rows("telemetry_features") :
             f.sector_id \in {BinOf(Get(t.lap_progress)) : t \in Progressed(f.driver_id, f.lap_no)}

\* Features built over a sample at progress 0.17 (in S1b, none in S1a) and a
\* sample at progress 1.0 (in S3b)
C18_BoundaryAndFinish ==
    /\ db["telemetry_features"].exists
    /\ \E t \in Rows("telemetry") : t.lap_progress = Some(Ratio(17, 100))
    /\ \E t \in Rows("telemetry") : t.lap_progress = Some(Ratio(1, 1))
    /\ \E f \in Rows("telemetry_features") : f.sector_id = "S1b"
    /\ \E f \in Rows("telemetry_features") : f.sector_id = "S3b"
    /\ ~\E f \in Rows("telemetry_features") : f.sector_id = "S1a"

\* A text of digits only, and one of digits with at most one point among them
AllDigits(q) == q # <<>> /\ \A i \in DOMAIN q : IsDigit(q[i])
IsDecimal(q) ==
    /\ q # <<>> /\ IsDigit(q[1])
    /\ \A i \in DOMAIN q : IsDigit(q[i]) \/ q[i] = "."
    /\ Cardinality({i \in DOMAIN q : q[i] = "."}) <= 1

\* The seconds a decimal text SS.s stands for, in units of 0.0001 s
DecimalSeconds(q) ==
    LET P == {i \in DOMAIN q : q[i] = "."}
    IN  IF P = {} THEN Sec(DigitsValue(q))
        ELSE Sec(DigitsValue(SubSeq(q, 1, MinOf(P) - 1)))
             + FracUnits(SubSeq(q, MinOf(P) + 1, Len(q)))

\* The sectors rows made from cell c
RowsOfCell(c) ==
    {s \in Rows("sectors") :
        /\ s.car_no = c.NUMBER /\ s.lap_no = c.LAP_NUMBER /\ s.sector_id = c.sector_id}
TimesOfCell(c) == {s.sector_time_s : s \in RowsOfCell(c)}

\* The clock texts M:SS.s and H:MM:SS.s among the cells of the analysis file
ClockFields(c) == Split(c.val.chars)
IsMinuteClock(c) ==
    /\ c.val.kind = "text" /\ Len(ClockFields(c)) = 2
    /\ AllDigits(ClockFields(c)[1]) /\ IsDecimal(ClockFields(c)[2])
IsHourClock(c) ==
    /\ c.val.kind = "text" /\ Len(ClockFields(c)) = 3
    /\ AllDigits(ClockFields(c)[1]) /\ AllDigits(ClockFields(c)[2])
    /\ IsDecimal(ClockFields(c)[3])

\* C19: once sectors is built, a cell holding M:SS.s has given the time
\* 60*M + SS.s and a cell holding H:MM:SS.s the time 3600*H + 60*MM + SS.s.
C19_ClockStringSeconds ==
    db["sectors"].exists =>
        \A c \in raw.analysis :
            /\ IsMinuteClock(c) =>
                 TimesOfCell(c) = {Sec(60) * DigitsValue(ClockFields(c)[1])
                                     + DecimalSeconds(ClockFields(c)[2])}
            /\ IsHourClock(c) =>
                 TimesOfCell(c) = {Sec(3600) * DigitsValue(ClockFields(c)[1])
                                     + Sec(60) * DigitsValue(ClockFields(c)[2])
                                     + DecimalSeconds(ClockFields(c)[3])}

\* A field of a text that holds no number: it has no digit, or a character that
\* belongs to no number
NoNumber(q) ==
    \/ ~\E i \in DOMAIN q : IsDigit(q[i])
    \/ \E i \in DOMAIN q : q[i] \notin {".", " "} /\ ~IsDigit(q[i])

\* A cell that holds no time: nothing at all, or a text with no number in its
\* seconds field (the last) or in its minutes field (the one before the last,
\* of two or three fields)
HoldsNoTime(c) ==
    \/ c.val.kind = "missing"
    \/ /\ c.val.kind = "text"
       /\ \/ NoNumber(ClockFields(c)[Len(ClockFields(c))])
          \/ /\ Len(ClockFields(c)) \in {2, 3}
             /\ NoNumber(ClockFields(c)[Len(ClockFields(c)) - 1])

\* C20: no run's sectors script ends with an exception out of parse_time, and
\* once sectors is built a cell that holds no time has no row in it (so none
\* with 0 seconds either), nor a main-sector sum of its own in lap_sector_sums.
C20_NoValueIsNoRecord ==
    /\ \A r \in Runs : said[r]["sectors"] # "parse_time"
    /\ db["sectors"].exists =>
         \A c \in raw.analysis : HoldsNoTime(c) => RowsOfCell(c) = {}
    /\ db["lap_sector_sums"].exists =>
         \A c \in raw.analysis :
            /\ HoldsNoTime(c)
            /\ ~\E o \in raw.analysis \ {c} :
                   /\ o.NUMBER = c.NUMBER /\ o.LAP_NUMBER = c.LAP_NUMBER
                   /\ MainSector(o.sector_id) = MainSector(c.sector_id)
            => ~\E l \in Rows("lap_sector_sums") :
                   /\ l.car_no = c.NUMBER /\ l.lap_no = c.LAP_NUMBER
                   /\ l.main_sector = MainSector(c.sector_id)

\* The sectors script has ended normally on a file with a text cell that holds
\* no time next to cells that do, and the ideal-lap tables are built
C20_UnparseableTextSkipped ==
    /\ \E r \in Runs : outcome[r]["sectors"] = "ok"
    /\ db["lap_sector_sums"].exists
    /\ Rows("sectors") # {}
    /\ \E c \in raw.analysis : c.val.kind = "text" /\ HoldsNoTime(c) /\ RowsOfCell(c) = {}

\* C21: in every partition, scanned by ascending lap_progress, the first
\* sample is not flagged whatever its throttle, and a partition whose samples
\* are all in the band [40, 70] has a hesitation count of 0.
C21_FirstSampleNeverFlagged ==
    db["telemetry_features"].exists =>
        \A f \in Rows("telemetry_features") :
            \A q \in ScanOrders(SamplesOf(f)) :
                LET th == [i \in DOMAIN q |-> q[i].throttle_pct] IN
                /\ HesitationFlag(th, 1) = 0
                /\ (\A i \in DOMAIN th : InBand(th[i])) => f.throttle_hesitation_count = 0

\* The class-best rows and the sector_deltas rows that go with a row of
\* physics_sector_metrics
ClassBestOf(p) ==
    {c \in Rows("ideal_lap_segments_class") :
        c.class = p.class /\ c.sector_id = p.sector_id}
SectorDeltasOf(p) ==
    {x \in Rows("sector_deltas") :
        x.driver_id = p.driver_id /\ x.lap_no = p.lap_no /\ x.sector_id = p.sector_id}

\* C22: once a run has built every table, ref_sector_time_s of each
\* physics_sector_metrics row is best_sector_time_s of its class and
\* micro-sector, and its delta_class_s is that of the sector_deltas row of the
\* same driver, lap and micro-sector.
C22_ReferenceIsClassBest ==
    (first.taken /\ \A r \in Runs : pc[r] \in {0, Done}) =>
        \A p \in Rows("physics_sector_metrics") :
            /\ {c.best_sector_time_s : c \in ClassBestOf(p)} = {p.ref_sector_time_s}
            /\ \A x \in SectorDeltasOf(p) : x.delta_class_s = p.delta_class_s

\* The fields of a physics_sector_metrics row that come from its instance, and
\* the fields that come from its reference
InstanceOf(p) ==
    [race_id |-> p.race_id, session_id |-> p.session_id, class |-> p.class,
     driver_id |-> p.driver_id, car_no |-> p.car_no, lap_no |-> p.lap_no,
     sector_id |-> p.sector_id, main_sector |-> p.main_sector,
     sector_time_s |-> p.sector_time_s,
     brake_start_progress |-> p.brake_start_progress,
     brake_max_bar |-> p.brake_max_bar,
     throttle_full_ratio |-> p.throttle_full_ratio,
     throttle_hesitation_count |-> p.throttle_hesitation_count,
     src_vehicle |-> p.src_vehicle]
RefFields(p) ==
    <<p.ref_sector_time_s, p.ref_brake_start_progress, p.ref_brake_max_bar,
      p.ref_throttle_full_ratio>>
OwnFields(b) ==
    <<b.sector_time_s, b.brake_start_progress, b.brake_max_bar, b.throttle_full_ratio>>
RefGroup(p) == {q \in Rows("physics_sector_metrics") : RefKey(q) = RefKey(p)}
ZeroOrNull(x) == IsNull(x) \/ Get(x).num = 0

\* physics_sector_metrics is the table made from the sector_physics_base at hand
MetricsAreCurrent ==
    /\ db["sector_physics_base"].exists /\ db["physics_sector_metrics"].exists
    /\ \A r \in Runs : pc[r] # Idx("physics_sector_metrics", "physics_sector_metrics")

\* C23: physics_sector_metrics has one row for each row of sector_physics_base;
\* the rows of a (race, class, micro-sector) group carry the same reference
\* values, those of one instance of the group with the least sector_time_s;
\* delta_class_s is never negative, and that instance's own row has
\* delta_class_s = 0 and every physics difference 0 or NULL.
C23_OneReferencePerGroup ==
    MetricsAreCurrent =>
        /\ {InstanceOf(p) : p \in Rows("physics_sector_metrics")} = Rows("sector_physics_base")
        /\ Cardinality(Rows("physics_sector_metrics")) = Cardinality(Rows("sector_physics_base"))
        /\ \A p \in Rows("physics_sector_metrics") :
              /\ \A q \in RefGroup(p) : RefFields(q) = RefFields(p)
              /\ p.delta_class_s >= 0
              /\ \E q \in RefGroup(p) :
                    /\ OwnFields(q) = RefFields(p)
                    /\ \A o \in RefGroup(p) : q.sector_time_s <= o.sector_time_s
                    /\ q.delta_class_s = 0
                    /\ ZeroOrNull(q.brake_point_diff_vs_ref)
                    /\ IsNull(q.brake_max_bar_diff_vs_ref)
                         \/ Get(q.brake_max_bar_diff_vs_ref) = 0
                    /\ ZeroOrNull(q.throttle_full_ratio_diff_vs_ref)

\* Two instances of one group with different times and different physics: the
\* slower one is diffed against the faster
C23_SlowerInstanceDiffed ==
    /\ MetricsAreCurrent
    /\ \E p \in Rows("physics_sector_metrics") :
          /\ p.delta_class_s > 0
          /\ ~ZeroOrNull(p.throttle_full_ratio_diff_vs_ref)
          /\ \E q \in RefGroup(p) : q # p /\ q.delta_class_s = 0

\* The population standard deviation of a sample, kept as Stddev keeps the
\* sample one: the divisor n and the sample.  Over a single value it is the
\* root of 0 / 1, the number 0.
StddevPop(sample) == Some([divisor |-> Cardinality(DOMAIN sample), sample |-> sample])
LossesOf(o) ==
    [x \in RetainedRows(o.driver_id, o.main_sector) |-> Get(x.delta_main_s)]

\* C24: consistency_s of every driver_opportunities row is the population
\* standard deviation (divisor n) of the retained losses of its driver and
\* main sector, a number (0) when the group has a single retained loss.
C24_ConsistencyIsPopulationStddev ==
    db["driver_opportunities"].exists =>
        \A o \in Rows("driver_opportunities") :
            /\ ~IsNull(o.consistency_s)
            /\ o.consistency_s = StddevPop(LossesOf(o))

\* The times above the noise filter recorded for one micro-sector of a lap
MicroTimes(driver_id, lap_no, sector_id) ==
    {s.sector_time_s : s \in {x \in KeptRows :
        x.driver_id = driver_id /\ x.lap_no = lap_no /\ x.sector_id = sector_id}}

\* The sums S{n}a + S{n}b of the laps of a driver that have both records
FullSectorSums(driver_id, n) ==
    {a + b : <<a, b>> \in UNION {MicroTimes(driver_id, lap, SectorIds[2 * n - 1])
                                    \X MicroTimes(driver_id, lap, SectorIds[2 * n])
                                  : lap \in {s.lap_no : s \in Rows("sectors")}}}

\* C25: once ideal_lap_driver is built, each best_S{n} that has a value is the
\* sum of the two micro-sector times of one lap of the driver; a lap with only
\* one of the two records above 1 s supplies no sum.
C25_BestIsAFullSectorSum ==
    db["ideal_lap_driver"].exists =>
        \A i \in Rows("ideal_lap_driver") :
            /\ ~IsNull(i.best_S1) => Get(i.best_S1) \in FullSectorSums(i.driver_id, 1)
            /\ ~IsNull(i.best_S2) => Get(i.best_S2) \in FullSectorSums(i.driver_id, 2)
            /\ ~IsNull(i.best_S3) => Get(i.best_S3) \in FullSectorSums(i.driver_id, 3)

\* Every driver_id is listed once in drivers
DriversListedOnce ==
    \A d, e \in Rows("drivers") : d.driver_id = e.driver_id => d = e

\* The main_sector_deltas rows of a driver and main sector
MainDeltasOf(driver_id, main_sector) ==
    {x \in Rows("main_sector_deltas") :
        x.driver_id = driver_id /\ x.main_sector = main_sector}

\* C26: with every driver listed once, each main_sector_deltas row has
\* delta_main_s >= 0 and its driver has a lap with delta_main_s = 0 in that
\* main sector; once driver_opportunities is built the pair has a row there,
\* and its best_gain_s is 0.
C26_BestGainIsZero ==
    (DriversListedOnce /\ db["main_sector_deltas"].exists) =>
        \A x \in Rows("main_sector_deltas") :
            /\ ~IsNull(x.delta_main_s) /\ Get(x.delta_main_s) >= 0
            /\ \E y \in MainDeltasOf(x.driver_id, x.main_sector) : y.delta_main_s = Some(0)
            /\ db["driver_opportunities"].exists =>
                 /\ \E o \in Rows("driver_opportunities") :
                       o.driver_id = x.driver_id /\ o.main_sector = x.main_sector
                 /\ \A o \in Rows("driver_opportunities") :
                       (o.driver_id = x.driver_id /\ o.main_sector = x.main_sector)
                           => o.best_gain_s = 0

\* A driver with a loss on one lap and none on another in the same main sector:
\* one row of opportunities covers both laps
C26_LossNextToBestLap ==
    /\ DriversListedOnce /\ db["driver_opportunities"].exists
    /\ \E x \in Rows("main_sector_deltas") :
          /\ Get(x.delta_main_s) > 0 /\ Get(x.delta_main_s) < Sec(20)
          /\ \E o \in Rows("driver_opportunities") :
                /\ o.driver_id = x.driver_id /\ o.main_sector = x.main_sector
                /\ o.best_gain_s = 0

\* C27: the hesitation count of every telemetry_features row is the count of
\* each order in which a scan by ascending lap_progress may visit the samples
\* of its partition, samples of equal lap_progress in either order.
C27_CountIndependentOfTieOrder ==
    db["telemetry_features"].exists =>
        \A f \in Rows("telemetry_features") :
            \A q \in ScanOrders(SamplesOf(f)) :
                f.throttle_hesitation_count
                    = HesitationCount([i \in DOMAIN q |-> q[i].throttle_pct])

\* The laps of the lap file that do not end after they start
DegenerateLaps ==
    {<<l.driver_id, l.lap_no>> : l \in {x \in files.laps_parquet.rows : x.end_ts <= x.start_ts}}

\* C28: every aggregated group holds a sample (each lap_physics row counts at
\* least one, each telemetry_features row has samples behind it), a sample of
\* a lap that does not end after it starts has no lap_progress, and no
\* telemetry_features row is made for such a lap.
C28_NoRatioOverNothing ==
    /\ \A p \in Rows("lap_physics") : p.samples >= 1
    /\ \A f \in Rows("telemetry_features") : SamplesOf(f) # {}
    /\ \A t \in Rows("telemetry") :
          <<t.driver_id, t.lap>> \in DegenerateLaps => IsNull(t.lap_progress)
    /\ \A f \in Rows("telemetry_features") : <<f.driver_id, f.lap_no>> \notin DegenerateLaps

\* Samples of a lap of no duration are in telemetry and counted in lap_physics,
\* and telemetry_features is built with rows of another lap only
C28_SamplesOfALapOfNoDuration ==
    /\ db["telemetry_features"].exists /\ Rows("telemetry_features") # {}
    /\ \E t \in Rows("telemetry") :
          /\ <<t.driver_id, t.lap>> \in DegenerateLaps
          /\ \E p \in Rows("lap_physics") : p.driver_id = t.driver_id /\ p.lap = t.lap

\* The drivers that have a driver_opportunities row and a lap_deltas row
DriversWithALoss ==
    {o.driver_id : o \in Rows("driver_opportunities")}
        \cap {l.driver_id : l \in Rows("lap_deltas")}

\* This step is run r executing generate_insights on a database that has the
\* driver_opportunities table
InsightsStep(r) ==
    /\ pc[r] = Idx("insights", "run") /\ pc'[r] = Done
    /\ db["driver_opportunities"].exists

NamesRateLimit(reply) ==
    /\ reply.kind = "exception"
    /\ reply.msg \in {<<"R", "a", "t", "e", " ", "L", "i", "m", "i", "t">>,
                      <<"r", "a", "t", "e", " ", "l", "i", "m", "i", "t">>,
                      <<"4", "2", "9">>,
                      <<"Q", "U", "O", "T", "A">>}
Calls == Len(coach.replies)
Ended == coach.at \in {"returned", "raised"}

\* At most three calls; every call but the last ended with a rate-limit error
\* and was followed by a back-off; a response is returned at once; any other
\* error is raised at once; three rate-limit errors give the "Coaching Error"
\* result and no exception
CallsAndOutcome ==
    /\ Calls <= 3
    /\ Len(coach.slept) = Cardinality({i \in 1 .. Calls : NamesRateLimit(coach.replies[i])})
    /\ \A i \in 1 .. (Calls - 1) : NamesRateLimit(coach.replies[i])
    /\ Calls > 0 =>
         /\ coach.replies[Calls].kind = "response"
              <=> (coach.at = "returned" /\ coach.returned # "Coaching Error")
         /\ (coach.replies[Calls].kind = "exception" /\ ~NamesRateLimit(coach.replies[Calls]))
              <=> coach.at = "raised"
    /\ coach.returned = "Coaching Error" =>
         /\ Calls = 3 /\ coach.at = "returned"
         /\ \A i \in 1 .. 3 : NamesRateLimit(coach.replies[i])
    /\ (Calls = 3 /\ NamesRateLimit(coach.replies[3])) => coach.at # "raised"

====
